---- MODULE Spec2Model ----
(***************************************************************************)
(* Model of the papercraft document (src/src/paper/craft.rs), the mesh     *)
(* assembly (src/src/paper/model.rs), the tessellator                      *)
(* (src/src/tessellate.rs), the Wavefront import                           *)
(* (src/src/paper/craft/file.rs) and the editing session (src/src/ui.rs).  *)
(*                                                                         *)
(* Geometry is kept exact by working on the integer lattice: points are    *)
(* pairs of integers, angles are counted in quarter turns, and a 2D rigid  *)
(* transform (Matrix3) is a record [r, t]: rotate by r quarter turns, then *)
(* translate by t.  Input meshes have axis-parallel cuttable edges, so     *)
(* every transform the code computes is of that form.  Indices are         *)
(* 1-based; 0 stands for None.                                             *)
(***************************************************************************)
EXTENDS Integers, Sequences, FiniteSets, TLC

(***************************************************************************)
(* Bounds of the model                                                     *)
(***************************************************************************)
MaxEdits == 3       \* handler calls of one editing session
MaxMoves == 4       \* handler calls of one session of moving islands
MaxOptionEvents == 3   \* handler calls of one session of changing options
MaxPolygons == 3    \* source polygons of one imported object
MaxObjectPolygons == 2  \* source polygons of each object of a two-object import

(***************************************************************************)
(* Program constants                                                       *)
(***************************************************************************)
PAGE_SEP == 10
TRIES == 60

DefaultOptions ==
    [ scale |-> 1, page_size |-> <<210, 297>>, pages |-> 1, page_cols |-> 2,
      margin |-> <<10, 10, 10, 10>>, tab_width |-> 5, resolution |-> 300,
      tab_angle |-> 45 ]

(***************************************************************************)
(* Lattice geometry (cgmath Vector2 / Matrix3 restricted to the lattice)   *)
(***************************************************************************)
VAdd(a, b) == <<a[1] + b[1], a[2] + b[2]>>
VSub(a, b) == <<a[1] - b[1], a[2] - b[2]>>
VNeg(a) == <<0 - a[1], 0 - a[2]>>
VScale(k, a) == <<k * a[1], k * a[2]>>
Dot(a, b) == a[1] * b[1] + a[2] * b[2]
PerpDot(a, b) == a[1] * b[2] - a[2] * b[1]
Abs(x) == IF x < 0 THEN 0 - x ELSE x
Max(a, b) == IF a > b THEN a ELSE b
Min(a, b) == IF a < b THEN a ELSE b

\* Matrix2::from_angle(r quarter turns) * v
Rot(r, v) ==
    CASE r % 4 = 0 -> v
      [] r % 4 = 1 -> <<0 - v[2], v[1]>>
      [] r % 4 = 2 -> <<0 - v[1], 0 - v[2]>>
      [] r % 4 = 3 -> <<v[2], 0 - v[1]>>

MxOne == [r |-> 0, t |-> <<0, 0>>]
MxMul(m, n) == [r |-> (m.r + n.r) % 4, t |-> VAdd(m.t, Rot(m.r, n.t))]
MxPoint(m, p) == VAdd(m.t, Rot(m.r, p))
MxTranslation(v) == [r |-> 0, t |-> v]
MxAngle(r) == [r |-> r % 4, t |-> <<0, 0>>]

\* a.angle(b) = atan2(a.perp_dot(b), a.dot(b)), in quarter turns in (-2, 2]
AngleQ(a, b) ==
    LET p == PerpDot(a, b)
        d == Dot(a, b)
    IN  IF p = 0 THEN (IF d < 0 THEN 2 ELSE 0)
        ELSE IF p > 0 THEN 1 ELSE 0 - 1

\* Rad::atan2(mx[0][1], mx[0][0]) of a lattice matrix, in quarter turns
MxAtan2(m) == CASE m.r = 0 -> 0 [] m.r = 1 -> 1 [] m.r = 2 -> 2 [] m.r = 3 -> 0 - 1

\* bounding_box_2d over a set of points: <<min corner, max corner>>
BoundingBox2D(ps) ==
    LET xs == {p[1] : p \in ps}
        ys == {p[2] : p \in ps}
        lo(S) == CHOOSE x \in S : \A y \in S : x <= y
        hi(S) == CHOOSE x \in S : \A y \in S : x >= y
    IN  <<(<<lo(xs), lo(ys)>>), (<<hi(xs), hi(ys)>>)>>

(***************************************************************************)
(* tessellate (src/src/tessellate.rs)                                      *)
(***************************************************************************)
\* Twice the signed area of the polygon in the given coordinates.
Area2(ps) ==
    LET n == Len(ps)
        term(i) == PerpDot(ps[i], ps[(i % n) + 1])
        RECURSIVE sum(_)
        sum(i) == IF i = 0 THEN 0 ELSE term(i) + sum(i - 1)
    IN  sum(n)

\* The plane basis is (plane_x, plane_x cross normal), which is left-handed
\* with respect to the normal: the projected polygon always runs clockwise.
\* A zero normal or ps[0] = ps[1] gives NaN coordinates.
ProjectIsNaN(ps) == Area2(ps) = 0 \/ ps[1] = ps[2]
ProjectToPlane(ps) ==
    IF Area2(ps) > 0 THEN [i \in 1..Len(ps) |-> <<ps[i][1], 0 - ps[i][2]>>]
    ELSE ps

point_in_triangle(p, p0, p1, p2) ==
    LET s == (p0[1] - p2[1]) * (p[2] - p2[2]) - (p0[2] - p2[2]) * (p[1] - p2[1])
        t == (p1[1] - p0[1]) * (p[2] - p0[2]) - (p1[2] - p0[2]) * (p[1] - p0[1])
        d == (p2[1] - p1[1]) * (p[2] - p1[2]) - (p2[2] - p1[2]) * (p[1] - p1[1])
    IN  IF (s < 0) # (t < 0) /\ s # 0 /\ t # 0
        THEN FALSE
        ELSE d = 0 \/ ((d < 0) = (s + t <= 0))

\* atan2 order of two (perp, dot) pairs: TRUE iff atan2(u) > atan2(w)
HalfOf(u) ==
    IF u[1] < 0 THEN 0
    ELSE IF u[1] = 0 /\ u[2] >= 0 THEN 1
    ELSE IF u[1] > 0 THEN 2 ELSE 3
AngleGreater(u, w) ==
    IF HalfOf(u) # HalfOf(w) THEN HalfOf(u) > HalfOf(w)
    ELSE IF HalfOf(u) \in {1, 3} THEN FALSE
    ELSE u[2] * w[1] - u[1] * w[2] < 0

\* (perp, dot) of the turn at the middle vertex of the ear starting at i
EarTurn(ps, i) ==
    LET n == Len(ps)
        a == ps[i][2]
        b == ps[(i % n) + 1][2]
        c == ps[((i + 1) % n) + 1][2]
    IN  <<PerpDot(VSub(c, b), VSub(b, a)), Dot(VSub(c, b), VSub(b, a))>>

IsEar(ps, i) ==
    LET n == Len(ps)
        i1 == (i % n) + 1
        i2 == ((i + 1) % n) + 1
    IN  ~ \E o \in 1..n :
            /\ o # i /\ o # i1 /\ o # i2
            /\ point_in_triangle(ps[o][2], ps[i][2], ps[i1][2], ps[i2][2])

\* The scan of one round: min_angle is 0 (None) or the index of the best ear.
RECURSIVE FindEar(_, _, _, _)
FindEar(ps, nan, i, min_angle) ==
    IF i > Len(ps) THEN min_angle
    ELSE LET better == IF min_angle = 0 THEN TRUE
                       ELSE ~nan /\ AngleGreater(EarTurn(ps, i), EarTurn(ps, min_angle))
             ear == IF nan THEN Len(ps) <= 3 ELSE IsEar(ps, i)
         IN  FindEar(ps, nan, i + 1, IF better /\ ear THEN i ELSE min_angle)

\* An alternative that drops everything from k on
RemoveFrom(s, k) == SubSeq(s, 1, k - 1)

RemoveAt(s, k) == [j \in 1..(Len(s) - 1) |-> IF j < k THEN s[j] ELSE s[j + 1]]

RECURSIVE EarLoop(_, _, _)
EarLoop(ps, nan, res) ==
    IF Len(ps) < 3 THEN res
    ELSE LET n == Len(ps)
             found == FindEar(ps, nan, 1, 0)
             i == IF found = 0 THEN 1 ELSE found
             i1 == (i % n) + 1
             i2 == ((i + 1) % n) + 1
         IN  EarLoop(RemoveAt(ps, i1), nan,
                     Append(res, <<ps[i][1], ps[i1][1], ps[i2][1]>>))

\* ps: the polygon's points; the result is a sequence of index triples.
tessellate(ps) ==
    IF Len(ps) < 3 THEN <<>>
    ELSE IF Len(ps) = 3 THEN <<(<<1, 2, 3>>)>>
    ELSE LET proj == ProjectToPlane(ps)
         IN  EarLoop([i \in 1..Len(ps) |-> <<i, proj[i]>>], ProjectIsNaN(ps), <<>>)

(***************************************************************************)
(* Mesh assembly (src/src/paper/model.rs)                                  *)
(*                                                                         *)
(* A source polygon is a record [v, p]: v the sequence of its vertex       *)
(* indices in the file and p the positions of those vertices in the        *)
(* polygon's plane.  A mesh is [faces, edges, facemap]:                    *)
(*   faces[f] = [vertices, edges, pos]  (pos: the positions of the three   *)
(*              corners in the face's plane),                              *)
(*   edges[e] = [f0, f1, v0, v1]        (f1 = 0: None; (v0, v1) is the     *)
(*              idx_edges entry of the edge),                              *)
(*   facemap[f] = the index of the source polygon of face f.               *)
(***************************************************************************)
EmptyMesh == [faces |-> <<>>, edges |-> <<>>, facemap |-> <<>>]

\* idx_edges.iter().position(...): the first edge stored as (v0,v1) or (v1,v0)
EdgePosition(edges, v0, v1) ==
    LET hits == {k \in 1..Len(edges) :
                    \/ (edges[k].v0 = v0 /\ edges[k].v1 = v1)
                    \/ (edges[k].v0 = v1 /\ edges[k].v1 = v0)}
    IN  IF hits = {} THEN 0 ELSE CHOOSE k \in hits : \A j \in hits : k <= j

\* An alternative that takes the edge found, however many faces it has
EdgeCreationAny(m, poly, tri, i) ==
    EdgePosition(m.edges, poly.v[tri[i]], poly.v[tri[(i % 3) + 1]])

\* EdgeCreation of side i of the triangle: Existing(k) is k > 0, New is 0.
\* A candidate that already has two faces is dropped (three-faced edge).
EdgeCreation(m, poly, tri, i) ==
    LET v0 == poly.v[tri[i]]
        v1 == poly.v[tri[(i % 3) + 1]]
        cand == EdgePosition(m.edges, v0, v1)
    IN  IF cand # 0 /\ m.edges[cand].f1 # 0 THEN 0 ELSE cand

\* "If the face uses the same edge twice, it is invalid"
IsDegenerate(fe) ==
    \E a, b \in 1..3 : a < b /\ fe[a] # 0 /\ fe[a] = fe[b]

\* face_edges.map(...): commits the three sides in order
RECURSIVE CommitEdges(_, _, _, _, _, _)
CommitEdges(edges, poly, tri, fe, i_face, i) ==
    IF i > 3 THEN <<edges, <<>>>>
    ELSE LET v0 == poly.v[tri[i]]
             v1 == poly.v[tri[(i % 3) + 1]]
             e == IF fe[i] = 0 THEN Len(edges) + 1 ELSE fe[i]
             edges1 == IF fe[i] = 0
                       THEN Append(edges, [f0 |-> i_face, f1 |-> 0, v0 |-> v0, v1 |-> v1])
                       ELSE [edges EXCEPT ![e].f1 = i_face]
             rest == CommitEdges(edges1, poly, tri, fe, i_face, i + 1)
         IN  <<rest[1], <<e>> \o rest[2]>>

\* The body of the "for tri in tris" loop for a triangle that is accepted.
AddTriangle(m, poly, tri, index) ==
    LET i_face == Len(m.faces) + 1
        fe == [i \in 1..3 |-> EdgeCreation(m, poly, tri, i)]
        ce == CommitEdges(m.edges, poly, tri, fe, i_face, 1)
    IN  [ faces |-> Append(m.faces,
                      [ vertices |-> [i \in 1..3 |-> poly.v[tri[i]]],
                        edges |-> ce[2],
                        pos |-> [i \in 1..3 |-> poly.p[tri[i]]] ]),
          edges |-> ce[1],
          facemap |-> Append(m.facemap, index) ]

TriangleIsDegenerate(m, poly, tri) ==
    IsDegenerate([i \in 1..3 |-> EdgeCreation(m, poly, tri, i)])

\* The triangles of one source polygon; a degenerate triangle runs
\* "continue 'faces".  The result is <<mesh, aborted>>.
RECURSIVE AddTriangles(_, _, _, _, _)
AddTriangles(m, poly, tris, index, k) ==
    IF k > Len(tris) THEN <<m, FALSE>>
    ELSE IF TriangleIsDegenerate(m, poly, tris[k]) THEN <<m, TRUE>>
    ELSE AddTriangles(AddTriangle(m, poly, tris[k], index), poly, tris, index, k + 1)

\* Model::from_waveobj: 'faces labels the loop over the source polygons, so
\* "continue 'faces" goes on with the next source polygon.
RECURSIVE WaveobjLoop(_, _, _)
WaveobjLoop(m, obj, index) ==
    IF index > Len(obj) THEN m
    ELSE WaveobjLoop(AddTriangles(m, obj[index], tessellate(obj[index].p), index, 1)[1],
                     obj, index + 1)

from_waveobj(obj) == WaveobjLoop(EmptyMesh, obj, 1)

\* Model::from_pepakura: pdo is a sequence of objects, each a sequence of
\* source polygons; facemap holds <<object, face>>.  'faces labels the loop
\* over the objects, so "continue 'faces" goes on with the next object.
RECURSIVE PepakuraFaces(_, _, _, _)
PepakuraFaces(m, o, i_o, i_f) ==
    IF i_f > Len(o) THEN m
    ELSE LET r == AddTriangles(m, o[i_f], tessellate(o[i_f].p), <<i_o, i_f>>, 1)
         IN  IF r[2] THEN r[1] ELSE PepakuraFaces(r[1], o, i_o, i_f + 1)

RECURSIVE PepakuraLoop(_, _, _)
PepakuraLoop(m, pdo, i_o) ==
    IF i_o > Len(pdo) THEN m
    ELSE PepakuraLoop(PepakuraFaces(m, pdo[i_o], i_o, 1), pdo, i_o + 1)

from_pepakura(pdo) == PepakuraLoop(EmptyMesh, pdo, 1)

(***************************************************************************)
(* Papercraft document (src/src/paper/craft.rs)                            *)
(*                                                                         *)
(* A document pc is [model, options, edges, islands, slots, free]:         *)
(*   edges[e]   the EdgeStatus of edge e,                                  *)
(*   islands    the SlotMap: a function from IslandKey <<slot, version>>   *)
(*              to Island [root, rot, loc]; slots[i] is the version of     *)
(*              slot i and free the stack of vacant slots (head first).    *)
(* Island.mx is always recompute_matrix() of (rot, loc): IslandMatrix.     *)
(***************************************************************************)
Hidden == [k |-> "Hidden", tab |-> FALSE]
Joined == [k |-> "Joined", tab |-> FALSE]
Cut(b) == [k |-> "Cut", tab |-> b]
EdgeStatus == {Hidden, Joined, Cut(FALSE), Cut(TRUE)}

NoKey == <<0, 0>>

IslandMatrix(island) == [r |-> island.rot % 4, t |-> island.loc]

\* SlotMap iteration: by slot index
RECURSIVE SortKeys(_)
SortKeys(K) ==
    IF K = {} THEN <<>>
    ELSE LET k == CHOOSE x \in K : \A y \in K : x[1] <= y[1]
         IN  <<k>> \o SortKeys(K \ {k})
IslandKeySeq(pc) == SortKeys(DOMAIN pc.islands)

\* SlotMap::insert: reuses the most recently vacated slot, else a new one
NextKey(pc) ==
    IF pc.free # <<>> THEN <<Head(pc.free), pc.slots[Head(pc.free)] + 1>>
    ELSE <<Len(pc.slots) + 1, 1>>
SlotInsert(pc, island) ==
    LET key == NextKey(pc)
    IN  [pc EXCEPT
            !.islands = [k \in DOMAIN pc.islands \cup {key} |->
                            IF k = key THEN island ELSE pc.islands[k]],
            !.slots = IF pc.free # <<>> THEN [pc.slots EXCEPT ![key[1]] = key[2]]
                      ELSE Append(pc.slots, 1),
            !.free = IF pc.free # <<>> THEN Tail(pc.free) ELSE pc.free]
\* An alternative that forgets to remove the island
SlotRemoveNothing(pc, key) == pc

SlotRemove(pc, key) ==
    [pc EXCEPT
        !.islands = [k \in DOMAIN pc.islands \ {key} |-> pc.islands[k]],
        !.free = <<key[1]>> \o pc.free]

\* Plane::from_tri(face).project(corner i, scale): the corner in the face's
\* own 2D basis (origin at the first corner, axes turned with the face).
FacePlaneProject(model, f, i, scale) ==
    VScale(scale, Rot(f % 4, VSub(model.faces[f].pos[i], model.faces[f].pos[1])))

\* The corner of face f that is the end v of edge e (Face::vertices_with_edges)
EdgeCorner(model, f, e, v) ==
    LET face == model.faces[f]
        i == CHOOSE k \in 1..3 : face.edges[k] = e
        j == (i % 3) + 1
    IN  IF face.vertices[i] = v THEN i ELSE j

\* The end v of edge e in the plane of face f
EdgeEnd(model, f, e, v) == FacePlaneProject(model, f, EdgeCorner(model, f, e, v), 1)

\* mabt1 * mabr * mabt0 for the ends a0, a1 of the edge in one face and
\* b0, b1 in the other
EdgeMatrix(a0, b0, a1, b1) ==
    MxMul(MxTranslation(a0),
          MxMul(MxAngle(AngleQ(VSub(b1, b0), VSub(a1, a0)) + 4), MxTranslation(VNeg(b0))))

face_to_face_edge_matrix_unscaled(model, e, fa, fb) ==
    EdgeMatrix(EdgeEnd(model, fa, e, model.edges[e].v0), EdgeEnd(model, fb, e, model.edges[e].v0),
               EdgeEnd(model, fa, e, model.edges[e].v1), EdgeEnd(model, fb, e, model.edges[e].v1))

\* Scale only the translation part
ScaleTranslation(m, scale) == [m EXCEPT !.t = VScale(scale, m.t)]
face_to_face_edge_matrix(pc, e, fa, fb) ==
    ScaleTranslation(face_to_face_edge_matrix_unscaled(pc.model, e, fa, fb), pc.options.scale)

\* Alternatives to cross_edge: a traversal that crosses every edge, and the
\* Flat policy as "every edge but the Hidden ones"
CrossEveryEdge(status) == TRUE
FlatCrossNotHidden(status) == status.k # "Hidden"

\* NormalTraverseFace / FlatTraverseFace :: cross_edge
NormalCrossEdge(status) == status.k \in {"Joined", "Hidden"}
FlatCrossEdge(status) == status.k = "Hidden"
CrossEdge(policy, status) ==
    IF policy = "Flat" THEN FlatCrossEdge(status) ELSE NormalCrossEdge(status)

\* The faces pushed while the edges of face i_face are scanned:
\* <<new stack entries, visited>>
RECURSIVE ScanEdges(_, _, _, _, _, _, _)
\* stack.push((i_next_face, next_state)) ahead of the later pushes
PushFirst(entry, rest) == <<(<<entry>>) \o rest[1], rest[2]>>

\* One step of the scan: over edge i_edge of the face towards face i_next
ScanEdge(pc, policy, scale, i_face, m, visited, k, i_edge, i_next) ==
    IF /\ CrossEdge(policy, pc.edges[i_edge])
       /\ i_next # 0
       /\ i_next \notin visited
    THEN PushFirst(<<i_next,
                     MxMul(m, ScaleTranslation(
                                face_to_face_edge_matrix_unscaled(pc.model, i_edge, i_face, i_next),
                                scale))>>,
                   ScanEdges(pc, policy, scale, i_face, m, visited \cup {i_next}, k + 1))
    ELSE ScanEdges(pc, policy, scale, i_face, m, visited, k + 1)

\* The two faces of an edge, in the order they are tried
EdgeFace(edge, k) == IF k % 2 = 1 THEN edge.f0 ELSE edge.f1

ScanEdges(pc, policy, scale, i_face, m, visited, k) ==
    IF k > 6 THEN <<(<<>>), visited>>
    ELSE ScanEdge(pc, policy, scale, i_face, m, visited, k,
                  pc.model.faces[i_face].edges[((k - 1) \div 2) + 1],
                  EdgeFace(pc.model.edges[pc.model.faces[i_face].edges[((k - 1) \div 2) + 1]], k))

\* traverse_faces_ex: the visited faces with their state, in visit order
RECURSIVE TraverseLoop(_, _, _, _, _, _)
\* The face on top of the stack is visited; sc is the scan of its edges
TraverseStep(pc, policy, scale, stack, out, sc) ==
    TraverseLoop(pc, policy, scale, SubSeq(stack, 1, Len(stack) - 1) \o sc[1],
                 sc[2], Append(out, stack[Len(stack)]))

TraverseLoop(pc, policy, scale, stack, visited, out) ==
    IF stack = <<>> THEN out
    ELSE TraverseStep(pc, policy, scale, stack, out,
                      ScanEdges(pc, policy, scale, stack[Len(stack)][1], stack[Len(stack)][2],
                                visited, 1))

traverse_faces_ex(pc, root, initial_state, policy, scale) ==
    TraverseLoop(pc, policy, scale, <<(<<root, initial_state>>)>>, {root}, <<>>)

\* get_flat_faces_with_matrix_unscaled: the faces of the flat face, each with
\* its unscaled matrix
get_flat_faces_with_matrix_unscaled(pc, i_face) ==
    traverse_faces_ex(pc, i_face, MxOne, "Flat", 1)

\* flat_face_tab_limit_internal.  EData of side k of face f placed by m
\* (Face::vertices_with_edges gives side k from corner k to the next corner)
EData(pc, f, m, k) ==
    [ i_edge |-> pc.model.faces[f].edges[k],
      i_v0 |-> pc.model.faces[f].vertices[k],
      i_v1 |-> pc.model.faces[f].vertices[(k % 3) + 1],
      p0 |-> MxPoint(m, FacePlaneProject(pc.model, f, k, 1)),
      p1 |-> MxPoint(m, FacePlaneProject(pc.model, f, (k % 3) + 1, 1)) ]

\* An alternative that leaves the Joined edges out of the contour as well
ContourSkipsJoined(status) == status.k \in {"Hidden", "Joined"}

\* "if self.edge_status(i_edge) == EdgeStatus::Hidden { return None; }"
ContourSkips(status) == status.k = "Hidden"

ContourOfFace(pc, fm) ==
    SelectSeq([k \in 1..3 |-> EData(pc, fm[1], fm[2], k)],
              LAMBDA d : ~ContourSkips(pc.edges[d.i_edge]))

RECURSIVE FlatContour(_, _, _)
FlatContour(pc, flat_face, n) ==
    IF n > Len(flat_face) THEN <<>>
    ELSE ContourOfFace(pc, flat_face[n]) \o FlatContour(pc, flat_face, n + 1)

\* iter().find(..): the index of the first hit, 0 when there is none
FirstIndex(hits) == IF hits = {} THEN 0 ELSE CHOOSE i \in hits : \A j \in hits : i <= j

\* The value when one of the three unwrap() calls panics
TabLimitPanic == <<>>

\* "Compute angles", in quarter turns; the width is 0.0
TabLimitAngles(d0, d1) ==
    << 2 - AngleQ(VSub(d1.p0, d0.p1), VSub(d0.p1, d0.p0)),
       2 - AngleQ(VSub(d1.p1, d1.p0), VSub(d1.p0, d0.p1)),
       0 >>

\* "Adjacent edges data": d0 ends where the edge begins, d1 begins where it ends
TabLimitFound(flat_contour, i0, i1) ==
    IF i0 = 0 \/ i1 = 0 THEN TabLimitPanic
    ELSE TabLimitAngles(flat_contour[i0], flat_contour[i1])

TabLimitOfEdge(flat_contour, the_edge) ==
    IF the_edge = 0 THEN TabLimitPanic
    ELSE TabLimitFound(flat_contour,
            FirstIndex({i \in 1..Len(flat_contour) :
                          flat_contour[i].i_v1 = flat_contour[the_edge].i_v0}),
            FirstIndex({i \in 1..Len(flat_contour) :
                          flat_contour[i].i_v0 = flat_contour[the_edge].i_v1}))

TabLimitOfContour(flat_contour, i_edge) ==
    TabLimitOfEdge(flat_contour,
                   FirstIndex({i \in 1..Len(flat_contour) : flat_contour[i].i_edge = i_edge}))

flat_face_tab_limit_internal(pc, i_face_b, i_edge) ==
    TabLimitOfContour(FlatContour(pc, get_flat_faces_with_matrix_unscaled(pc, i_face_b), 1),
                      i_edge)

\* memo.entry(key): Occupied gives the stored value, Vacant stores the fresh one
MemoEntry(memo, key, value) ==
    IF key \in DOMAIN memo THEN memo ELSE (key :> value) @@ memo

\* Papercraft::traverse_faces and traverse_faces_no_matrix
traverse_faces(pc, island) ==
    traverse_faces_ex(pc, island.root, IslandMatrix(island), "Normal", pc.options.scale)
\* The faces of a traversal
FacesOf(t) == {t[i][1] : i \in 1..Len(t)}
IslandFaces(pc, island) == FacesOf(traverse_faces_ex(pc, island.root, MxOne, "Normal", 1))

contains_face(pc, island, face) == face \in IslandFaces(pc, island)
island_face_count(pc, island) == Cardinality(IslandFaces(pc, island))

get_flat_faces(pc, i_face) == FacesOf(traverse_faces_ex(pc, i_face, MxOne, "Flat", 1))

\* island_by_face: the first island in iteration order that holds the face;
\* NoKey stands for panic!("Island not found")
FirstHit(ks, hits) ==
    IF hits = {} THEN NoKey ELSE ks[CHOOSE i \in hits : \A j \in hits : i <= j]
FaceHits(pc, ks, i_face) ==
    FirstHit(ks, {i \in 1..Len(ks) : contains_face(pc, pc.islands[ks[i]], i_face)})
island_by_face(pc, i_face) == FaceHits(pc, IslandKeySeq(pc), i_face)

RootHits(pc, ks, i_face) ==
    FirstHit(ks, {i \in 1..Len(ks) : pc.islands[ks[i]].root = i_face})
island_by_root(pc, i_face) == RootHits(pc, IslandKeySeq(pc), i_face)

\* An alternative that lets the larger root face win a tie of the weights
CompareWeightsLargerRoot(weight_a, weight_b, a, b) ==
    IF weight_b > weight_a THEN TRUE
    ELSE IF weight_b < weight_a THEN FALSE
    ELSE a.root < b.root

\* "if weight_b > weight_a ... else if weight_b < weight_a ... else a.root > b.root"
CompareWeights(weight_a, weight_b, a, b) ==
    IF weight_b > weight_a THEN TRUE
    ELSE IF weight_b < weight_a THEN FALSE
    ELSE a.root > b.root

\* priority_face = 0 is None
compare_islands(pc, a, b, priority_face) ==
    IF priority_face # 0 /\ contains_face(pc, a, priority_face) THEN FALSE
    ELSE IF priority_face # 0 /\ contains_face(pc, b, priority_face) THEN TRUE
    ELSE CompareWeights(island_face_count(pc, a), island_face_count(pc, b), a, b)

edge_toggle_tab(pc, i_edge) ==
    IF pc.model.edges[i_edge].f1 = 0 THEN pc
    ELSE IF pc.edges[i_edge].k = "Cut"
         THEN [pc EXCEPT !.edges[i_edge] = Cut(~pc.edges[i_edge].tab)]
         ELSE pc

\* Vector2::normalize_to for an axis-parallel vector
NormalizeTo(v, len) ==
    CASE v[2] = 0 /\ v[1] > 0 -> <<len, 0>>
      [] v[2] = 0 /\ v[1] < 0 -> <<0 - len, 0>>
      [] v[1] = 0 /\ v[2] > 0 -> <<0, len>>
      [] v[1] = 0 /\ v[2] < 0 -> <<0, 0 - len>>

\* Edge::face_sign as the factor used by edge_cut
FaceSign(edge, i_face) == IF edge.f0 = i_face THEN 0 - 1 ELSE 1

\* An alternative to the search of edge_cut that roots the new island at the
\* face that was found
DataFoundSameSide(t, i_face_a, i_face_b) ==
    LET hits == {i \in 1..Len(t) : t[i][1] \in {i_face_a, i_face_b}}
        last == CHOOSE i \in hits : \A j \in hits : j <= i
    IN  <<t[last][2], t[last][1], t[last][1]>>

\* The last of the two faces of the edge met by the traversal:
\* <<fmx, new_root, i_face_old>>
DataFound(t, i_face_a, i_face_b) ==
    LET hits == {i \in 1..Len(t) : t[i][1] \in {i_face_a, i_face_b}}
        last == CHOOSE i \in hits : \A j \in hits : j <= i
    IN  IF t[last][1] = i_face_a THEN <<t[last][2], i_face_b, i_face_a>>
        ELSE <<t[last][2], i_face_a, i_face_b>>

\* An alternative to the end of edge_cut that forgets the new island
CutInsertNothing(pc1, i_island, offset, new_island, d, old_moves) == pc1

\* The end of edge_cut: the island that moves away from the cut is the one
\* compare_islands names; d is the offset across the edge
CutInsert(pc1, i_island, offset, new_island, d, old_moves) ==
    SlotInsert(IF offset >= 0 /\ old_moves
               THEN [pc1 EXCEPT !.islands[i_island].loc = VSub(@, d)]
               ELSE pc1,
               IF offset >= 0 /\ ~old_moves
               THEN [new_island EXCEPT !.loc = VAdd(@, d)]
               ELSE new_island)

\* The direction across the edge: v0, v1 are the placed ends of the edge
CutOffset(sign, v0, v1, offset) ==
    LET v == NormalizeTo(VSub(v1, v0), offset)
    IN  VScale(sign, <<0 - v[2], v[1]>>)

\* The placed end v of the edge in face new_root, under the matrix mx
PlacedEnd(pc1, mx, new_root, i_edge, v) ==
    MxPoint(mx, FacePlaneProject(pc1.model, new_root,
                    EdgeCorner(pc1.model, new_root, i_edge, v), pc1.options.scale))

\* The new island gets the matrix mx of its root
CutPlace(pc1, i_edge, offset, i_island, new_root, mx, new_island) ==
    CutInsert(pc1, i_island, offset, new_island,
              CutOffset(FaceSign(pc1.model.edges[i_edge], new_root),
                        PlacedEnd(pc1, mx, new_root, i_edge, pc1.model.edges[i_edge].v0),
                        PlacedEnd(pc1, mx, new_root, i_edge, pc1.model.edges[i_edge].v1),
                        offset),
              compare_islands(pc1, pc1.islands[i_island], new_island, 0))

NewIsland(new_root, mx) == [root |-> new_root, loc |-> mx.t, rot |-> MxAtan2(mx)]

CutRoot(pc1, i_edge, offset, i_island, new_root, mx) ==
    CutPlace(pc1, i_edge, offset, i_island, new_root, mx, NewIsland(new_root, mx))

\* found = <<face_mx, new_root, i_face_old>>
CutFound(pc1, i_edge, offset, i_island, found) ==
    CutRoot(pc1, i_edge, offset, i_island, found[2],
            MxMul(found[1], face_to_face_edge_matrix(pc1, i_edge, found[3], found[2])))

\* The edge is Cut(false) in pc1 and i_island is the island it was in
CutIsland(pc1, i_edge, offset, i_island) ==
    CutFound(pc1, i_edge, offset, i_island,
             DataFound(traverse_faces(pc1, pc1.islands[i_island]),
                       pc1.model.edges[i_edge].f0, pc1.model.edges[i_edge].f1))

\* offset = 0 - 1 is None
edge_cut(pc, i_edge, offset) ==
    IF pc.edges[i_edge].k # "Joined" THEN pc
    ELSE IF pc.model.edges[i_edge].f1 = 0 THEN pc
    ELSE CutIsland([pc EXCEPT !.edges[i_edge] = Cut(FALSE)], i_edge, offset,
                   island_by_face(pc, pc.model.edges[i_edge].f0))

\* edge_join returns the renames map; here <<pc', renames>> where renames is
\* a function from the removed IslandKey to its JoinResult.
NoRenames == [k \in {} |-> 0]

JoinResult(i_edge, i_island, loser) ==
    [ i_edge |-> i_edge, i_island |-> i_island,
      prev_root |-> loser.root, prev_rot |-> loser.rot, prev_loc |-> loser.loc ]

\* The end of edge_join: with swap the surviving slot takes island_b
JoinSwap(pc1, i_edge, i_island_b, island_b, i_island_a, swap) ==
    << [(IF swap THEN [pc1 EXCEPT !.islands[i_island_a] = island_b] ELSE pc1)
            EXCEPT !.edges[i_edge] = Joined],
       [k \in {i_island_b} |->
            JoinResult(i_edge, i_island_a, IF swap THEN pc1.islands[i_island_a] ELSE island_b)] >>

\* island_b is out of pc1; i_island_a is the island of the other face
JoinIslands(pc1, i_edge, priority_face, i_island_b, island_b, i_island_a) ==
    JoinSwap(pc1, i_edge, i_island_b, island_b, i_island_a,
             compare_islands(pc1, pc1.islands[i_island_a], island_b, priority_face))

JoinInto(pc, i_edge, priority_face, i_island_b) ==
    IF contains_face(pc, pc.islands[i_island_b], pc.model.edges[i_edge].f0)
    THEN <<pc, NoRenames>>
    ELSE JoinIslands(SlotRemove(pc, i_island_b), i_edge, priority_face, i_island_b,
                     pc.islands[i_island_b],
                     island_by_face(SlotRemove(pc, i_island_b), pc.model.edges[i_edge].f0))

edge_join(pc, i_edge, priority_face) ==
    IF pc.edges[i_edge].k # "Cut" THEN <<pc, NoRenames>>
    ELSE IF pc.model.edges[i_edge].f1 = 0 THEN <<pc, NoRenames>>
    ELSE JoinInto(pc, i_edge, priority_face, island_by_face(pc, pc.model.edges[i_edge].f1))

(***************************************************************************)
(* Papercraft::import_waveobj (src/src/paper/craft/file.rs)                *)
(***************************************************************************)
\* An alternative that hides no edge
ImportEdgeStatusAllCut(model) == [e \in 1..Len(model.edges) |-> Cut(FALSE)]

\* Every edge starts Cut(false); an edge between two triangles of the same
\* source polygon becomes Hidden.
ImportEdgeStatus(model) ==
    [e \in 1..Len(model.edges) |->
        LET edge == model.edges[e]
        IN  IF edge.f1 # 0 /\ model.facemap[edge.f0] = model.facemap[edge.f1]
            THEN Hidden ELSE Cut(FALSE)]

\* The vertices of the faces reached from root, placed by the traversal
PlaceAll(pc, t) ==
    {MxPoint(t[i][2], FacePlaneProject(pc.model, t[i][1], c, pc.options.scale)) :
        i \in 1..Len(t), c \in 1..3}
PlacedVertices(pc, root, mx0, angle) ==
    PlaceAll(pc, traverse_faces_ex(pc, root, MxMul(mx0, MxAngle(angle)), "Normal",
                                   pc.options.scale))

\* The "while let Some(root)" loop; order is the iteration order of the
\* HashSet pending_faces, st = [pc, pending, pos_x, pos_y, row_height].
RECURSIVE ImportIslands(_, _, _)
\* The cursor after an island: pos_x and row_height are the advanced values
ImportCursor(st, pc, pending, pos_x, row_height) ==
    IF pos_x > 210
    THEN [ pc |-> pc, pending |-> pending,
           pos_x |-> 0, pos_y |-> st.pos_y + row_height + 5, row_height |-> 0 ]
    ELSE [ pc |-> pc, pending |-> pending,
           pos_x |-> pos_x, pos_y |-> st.pos_y, row_height |-> row_height ]

\* The island of root is placed by the box of its faces
ImportIsland(st, order, k, root, group, bbox) ==
    ImportIslands(
        ImportCursor(st,
            SlotInsert(st.pc, [root |-> root,
                               loc |-> <<st.pos_x - bbox[1][1], st.pos_y - bbox[1][2]>>,
                               rot |-> 0]),
            st.pending \ group,
            st.pos_x + (bbox[2][1] - bbox[1][1]) + 5,
            Max(st.row_height, bbox[2][2] - bbox[1][2])),
        order, k + 1)

ImportIslands(st, order, k) ==
    IF k > Len(order) THEN st.pc
    ELSE IF order[k] \notin st.pending THEN ImportIslands(st, order, k + 1)
    ELSE ImportIsland(st, order, k, order[k],
                      IslandFaces(st.pc, [root |-> order[k], rot |-> 0, loc |-> <<0, 0>>]),
                      BoundingBox2D(PlacedVertices(st.pc, order[k], MxOne, 0)))

\* The document before its islands are made
ImportDocument(model) ==
    [ model |-> model, options |-> DefaultOptions,
      edges |-> ImportEdgeStatus(model),
      islands |-> [k \in {} |-> 0], slots |-> <<>>, free |-> <<>> ]

ImportModel(model, order) ==
    ImportIslands([ pc |-> ImportDocument(model), pending |-> 1..Len(model.faces),
                    pos_x |-> 0, pos_y |-> 0, row_height |-> 0 ], order, 1)

import_waveobj(obj, order) == ImportModel(from_waveobj(obj), order)

(***************************************************************************)
(* Input models                                                            *)
(***************************************************************************)
\* A closed band of three square quads of side 90 (the side faces of a
\* triangular prism), each quad given in its own plane.
RingObj ==
    [k \in 1..3 |->
        [ v |-> <<k, (k % 3) + 1, (k % 3) + 4, k + 3>>,
          p |-> << <<90 * (k - 1), 0>>, <<90 * k, 0>>, <<90 * k, 90>>, <<90 * (k - 1), 90>> >> ]]

\* A closed band of four square quads (the side faces of a box)
Ring4Obj ==
    [k \in 1..4 |->
        [ v |-> <<k, (k % 4) + 1, (k % 4) + 5, k + 4>>,
          p |-> << <<90 * (k - 1), 0>>, <<90 * k, 0>>, <<90 * k, 90>>, <<90 * (k - 1), 90>> >> ]]

\* Iteration orders of the set of pending faces
PendingOrders(n) ==
    { [i \in 1..n |-> i], [i \in 1..n |-> n + 1 - i] }

\* PaperOptions::page_position
page_position(options, page) ==
    LET row == page \div options.page_cols
        col == page % options.page_cols
    IN  <<col * (options.page_size[1] + PAGE_SEP), row * (options.page_size[2] + PAGE_SEP)>>

\* PaperOptions::is_inside_canvas
is_inside_canvas(options, pos) ==
    LET page_cols == options.page_cols
        page_rows == (options.pages + options.page_cols - 1) \div options.page_cols
    IN  IF pos[1] < 0 - (options.page_size[1] + PAGE_SEP) THEN FALSE
        ELSE IF pos[2] < 0 - (options.page_size[2] + PAGE_SEP) THEN FALSE
        ELSE IF pos[1] > (page_cols + 1) * (options.page_size[1] + PAGE_SEP) THEN FALSE
        ELSE IF pos[2] > (page_rows + 1) * (options.page_size[2] + PAGE_SEP) THEN FALSE
        ELSE TRUE

\* PaperOptions::global_to_page: "as i32" cuts towards zero, the column is
\* clamped to 0 ..= page_cols and the row to 0 and more
PageColumn(options, pos) ==
    IF pos[1] < 0 THEN 0
    ELSE Min(pos[1] \div (options.page_size[1] + PAGE_SEP), options.page_cols)
PageRow(options, pos) ==
    IF pos[2] < 0 THEN 0 ELSE pos[2] \div (options.page_size[2] + PAGE_SEP)
PageOffset(options, pos, page) ==
    [page |-> page, offset |-> VSub(pos, page_position(options, page))]
global_to_page(options, pos) ==
    PageOffset(options, pos, PageRow(options, pos) * options.page_cols + PageColumn(options, pos))

\* PaperOptions::page_to_global
page_to_global(options, po) == VAdd(page_position(options, po.page), po.offset)

\* "po.offset *= scale" with scale = num / den; the lattice holds the
\* product when den divides it
OffsetIsExact(po, num, den) ==
    (po.offset[1] * num) % den = 0 /\ (po.offset[2] * num) % den = 0
\* An alternative that keeps the offset as it is
ScaleOffsetNot(po, num, den) == po

ScaleOffset(po, num, den) ==
    [po EXCEPT !.offset = <<(po.offset[1] * num) \div den, (po.offset[2] * num) \div den>>]

\* The new location of an island: its offset in its page under the old
\* options, scaled, in the same page under the new ones
Relocate(old, new, loc) ==
    page_to_global(new, ScaleOffset(global_to_page(old, loc), new.scale, old.scale))

\* Papercraft::set_options; the old options are pc.options
set_options(pc, options) ==
    [pc EXCEPT !.options = options,
               !.islands = [k \in DOMAIN pc.islands |->
                               [pc.islands[k] EXCEPT !.loc = Relocate(pc.options, options, @)]]]

\* island_bounding_box_angle: the box of the island turned by angle (in
\* quarter turns) about the origin of its matrix, inflated by the tab width
Inflate(bb, m) == <<VSub(bb[1], <<m, m>>), VAdd(bb[2], <<m, m>>)>>
island_bounding_box_angle(pc, island, angle) ==
    Inflate(BoundingBox2D(PlacedVertices(pc, island.root, IslandMatrix(island), angle)),
            pc.options.tab_width)

bbox_weight(bb) == bb[2][2] - bb[1][2]

\* island_best_bounding_box: the scan over the candidate angles
\* k * full_turn / TRIES, k = 1 .. TRIES - 1.  The lattice holds the
\* candidates that are whole quarter turns (k a multiple of TRIES / 4); for
\* the rectangular islands of the input models the height of the box is
\* smallest at one of those.  best = <<angle, bbox>>.
\* "if weight2 < best_weight": the better of the box bb2 at angle2 and best
BetterBox(angle2, bb2, best) ==
    IF bbox_weight(bb2) < bbox_weight(best[2]) THEN <<angle2, bb2>> ELSE best

RECURSIVE BestBoxScan(_, _, _, _)
BestBoxScan(pc, island, angle2, best) ==
    IF angle2 * (TRIES \div 4) >= TRIES THEN best
    ELSE BestBoxScan(pc, island, angle2 + 1,
                     BetterBox(angle2, island_bounding_box_angle(pc, island, angle2), best))

island_best_bounding_box(pc, island) ==
    BestBoxScan(pc, island, 1, <<0, island_bounding_box_angle(pc, island, 0)>>)

\* ordered_islands.sort_by_key(-(w * h)): a stable insertion by growing key
BoxArea(bb) == (bb[2][1] - bb[1][1]) * (bb[2][2] - bb[1][2])
RECURSIVE SortByArea(_)
SortByArea(s) ==
    IF s = <<>> THEN <<>>
    ELSE LET big == {i \in 1..Len(s) : \A j \in 1..Len(s) : BoxArea(s[j][3]) <= BoxArea(s[i][3])}
             first == CHOOSE i \in big : \A j \in big : i <= j
         IN  <<s[first]>> \o SortByArea(RemoveAt(s, first))

\* The placement loop of pack_islands; c is the cursor
\* [pos_x, pos_y, row_height, num_in_row, page, positions]
\* page_size less the margins
PackPageSize(options) ==
    << options.page_size[1] - options.margin[2] - options.margin[3],
       options.page_size[2] - options.margin[1] - options.margin[4] >>

\* "if next_pos_x > page_size.x && num_in_row > 0": the cursor on the next
\* row and, "if pos_y > page_size.y", on the next page
PackWrap(c, page_size) ==
    IF c.pos_y + c.row_height > page_size[2]
    THEN [c EXCEPT !.pos_x = 0, !.pos_y = 0, !.row_height = 0, !.num_in_row = 0,
                   !.page = @ + 1]
    ELSE [c EXCEPT !.pos_x = 0, !.pos_y = @ + c.row_height, !.row_height = 0,
                   !.num_in_row = 0]

\* The island entry with box bbox is put at the cursor c1
PackPut(options, entry, bbox, c1) ==
    [ pos_x |-> c1.pos_x + bbox[2][1] - bbox[1][1],
      pos_y |-> c1.pos_y,
      row_height |-> Max(c1.row_height, bbox[2][2] - bbox[1][2]),
      num_in_row |-> c1.num_in_row + 1,
      page |-> c1.page,
      positions |-> Append(c1.positions,
                       <<entry[1], entry[2],
                         VAdd(VAdd(page_position(options, c1.page),
                                   <<options.margin[2], options.margin[1]>>),
                              <<c1.pos_x - bbox[1][1], c1.pos_y - bbox[1][2]>>)>>) ]

PackOne(options, entry, bbox, c, page_size) ==
    PackPut(options, entry, bbox,
            IF c.pos_x + bbox[2][1] - bbox[1][1] > page_size[1] /\ c.num_in_row > 0
            THEN PackWrap(c, page_size) ELSE c)

RECURSIVE PackLoop(_, _, _, _)
PackLoop(pc, ordered, k, c) ==
    IF k > Len(ordered) THEN c
    ELSE PackLoop(pc, ordered, k + 1,
                  PackOne(pc.options, ordered[k], ordered[k][3], c, PackPageSize(pc.options)))

RECURSIVE ApplyPositions(_, _, _)
ApplyPositions(pc, positions, k) ==
    IF k > Len(positions) THEN pc
    ELSE LET key == positions[k][1]
         IN  ApplyPositions(
                [pc EXCEPT !.islands[key].loc = VAdd(@, positions[k][3]),
                           !.islands[key].rot = @ + positions[k][2]],
                positions, k + 1)

\* Papercraft::pack_islands: <<pc', number of pages>>
\* (i_island, angle, bbox) of one island; b = <<angle, bbox>>
BoxEntry(key, b) == <<key, b[1], b[2]>>
BestBoxes(pc, ks) ==
    [i \in 1..Len(ks) |-> BoxEntry(ks[i], island_best_bounding_box(pc, pc.islands[ks[i]]))]
PackResult(pc, c) == <<ApplyPositions(pc, c.positions, 1), c.page + 1>>
pack_islands(pc) ==
    PackResult(pc, PackLoop(pc, SortByArea(BestBoxes(pc, IslandKeySeq(pc))), 1,
                            [ pos_x |-> 0, pos_y |-> 0, row_height |-> 0, num_in_row |-> 0,
                              page |-> 0, positions |-> <<>> ]))

\* The non-hidden edges of the flat face of i_face, face by face
RECURSIVE FlatEdges(_, _)
FlatEdges(pc, faces) ==
    IF faces = {} THEN <<>>
    ELSE LET f == CHOOSE x \in faces : \A y \in faces : x <= y
         IN  SelectSeq(pc.model.faces[f].edges, LAMBDA e : pc.edges[e] # Hidden)
             \o FlatEdges(pc, faces \ {f})

\* "Get the opposite edge, if any": <<>> or <<edge>>
OppositeEdge(pc, edges, i_edge) ==
    LET edge == pc.model.edges[i_edge]
        ok(i_e) == /\ i_e # i_edge
                   /\ LET e == pc.model.edges[i_e]
                      IN  ~ (e.v0 = edge.v0 \/ e.v0 = edge.v1 \/ e.v1 = edge.v0 \/ e.v1 = edge.v1)
        hits == {i \in 1..Len(edges) : ok(edges[i])}
    IN  IF hits = {} THEN <<>> ELSE <<edges[CHOOSE i \in hits : \A j \in hits : i <= j]>>

\* The edges pushed after a join for one side (i_face, n_faces)
StripOpposite(pc, i_edge, edges) ==
    IF Len(edges) # 4 THEN <<>> ELSE OppositeEdge(pc, edges, i_edge)
StripNext(pc, i_edge, i_face, n_faces) ==
    IF n_faces # 2 THEN <<>>
    ELSE StripOpposite(pc, i_edge, FlatEdges(pc, get_flat_faces(pc, i_face)))

\* Papercraft::try_join_strip: the "while let Some(i_edge) = i_edges.pop()"
\* loop; the result is <<pc', renames>>
RECURSIVE TryJoinLoop(_, _, _)
\* r is the result of edge_join on the popped edge
TryJoined(pc, i_edge, rest, renames, n_faces_a, n_faces_b, r) ==
    IF DOMAIN r[2] = {} THEN TryJoinLoop(pc, rest, renames)
    ELSE TryJoinLoop(r[1],
            rest \o StripNext(r[1], i_edge, pc.model.edges[i_edge].f0, n_faces_a)
                 \o StripNext(r[1], i_edge, pc.model.edges[i_edge].f1, n_faces_b),
            r[2] @@ renames)

\* An alternative that joins whatever the face counts are
TryJoinFacesAlways(pc, i_edge, rest, renames, n_faces_a, n_faces_b) ==
    TryJoined(pc, i_edge, rest, renames, n_faces_a, n_faces_b, edge_join(pc, i_edge, 0))

\* "if n_faces_a != 2 && n_faces_b != 2 { continue; }"
TryJoinFaces(pc, i_edge, rest, renames, n_faces_a, n_faces_b) ==
    IF n_faces_a # 2 /\ n_faces_b # 2 THEN TryJoinLoop(pc, rest, renames)
    ELSE TryJoined(pc, i_edge, rest, renames, n_faces_a, n_faces_b, edge_join(pc, i_edge, 0))

\* The edge popped from i_edges
TryJoinEdge(pc, i_edge, rest, renames) ==
    IF pc.model.edges[i_edge].f1 = 0 THEN TryJoinLoop(pc, rest, renames)
    ELSE IF pc.edges[i_edge].k # "Cut" THEN TryJoinLoop(pc, rest, renames)
    ELSE TryJoinFaces(pc, i_edge, rest, renames,
            island_face_count(pc, pc.islands[island_by_face(pc, pc.model.edges[i_edge].f0)]),
            island_face_count(pc, pc.islands[island_by_face(pc, pc.model.edges[i_edge].f1)]))

TryJoinLoop(pc, i_edges, renames) ==
    IF i_edges = <<>> THEN <<pc, renames>>
    ELSE TryJoinEdge(pc, i_edges[Len(i_edges)], SubSeq(i_edges, 1, Len(i_edges) - 1), renames)

try_join_strip(pc, i_edge) == TryJoinLoop(pc, <<i_edge>>, NoRenames)

\* One iteration of the loop of try_join_strip, for the loop run step by
\* step: <<pc', i_edges'>>, rest being i_edges after the pop
\* An alternative that pushes the opposite edges and leaves the edge Cut
StripJoinedKeepsCut(pc, i_edge, rest, n_faces_a, n_faces_b, r) ==
    IF DOMAIN r[2] = {} THEN <<pc, rest>>
    ELSE << pc,
            rest \o StripNext(r[1], i_edge, pc.model.edges[i_edge].f0, n_faces_a)
                 \o StripNext(r[1], i_edge, pc.model.edges[i_edge].f1, n_faces_b) >>

\* "let r = self.edge_join(i_edge, None); if r.is_empty() { continue; }" and
\* "i_edges.extend(opposite)" for both faces
StripJoined(pc, i_edge, rest, n_faces_a, n_faces_b, r) ==
    IF DOMAIN r[2] = {} THEN <<pc, rest>>
    ELSE << r[1],
            rest \o StripNext(r[1], i_edge, pc.model.edges[i_edge].f0, n_faces_a)
                 \o StripNext(r[1], i_edge, pc.model.edges[i_edge].f1, n_faces_b) >>

StripFaces(pc, i_edge, rest, n_faces_a, n_faces_b) ==
    IF n_faces_a # 2 /\ n_faces_b # 2 THEN <<pc, rest>>
    ELSE StripJoined(pc, i_edge, rest, n_faces_a, n_faces_b, edge_join(pc, i_edge, 0))

StripIterate(pc, i_edge, rest) ==
    IF pc.model.edges[i_edge].f1 = 0 THEN <<pc, rest>>
    ELSE IF pc.edges[i_edge].k # "Cut" THEN <<pc, rest>>
    ELSE StripFaces(pc, i_edge, rest,
            island_face_count(pc, pc.islands[island_by_face(pc, pc.model.edges[i_edge].f0)]),
            island_face_count(pc, pc.islands[island_by_face(pc, pc.model.edges[i_edge].f1)]))

\* An alternative to reset_transformation that restores the root and the
\* rotation only
reset_keeping_loc(island, root_face, rot, loc) ==
    [root |-> root_face, rot |-> rot, loc |-> island.loc]

\* Island::reset_transformation, translate and rotate
reset_transformation(island, root_face, rot, loc) ==
    [root |-> root_face, rot |-> rot, loc |-> loc]
translate(island, delta) == [island EXCEPT !.loc = VAdd(@, delta)]
rotate(island, angle, center) ==
    [island EXCEPT !.rot = (@ + angle + 4) % 4,
                   !.loc = VAdd(center, Rot(angle + 4, VSub(@, center)))]

(***************************************************************************)
(* Editing session (src/src/ui.rs, PapercraftContext)                      *)
(***************************************************************************)
VARIABLES
    papercraft,        \* the document, without its immutable model
    undo_stack,        \* Vec<Vec<UndoAction>>
    modified,
    selected_islands,  \* Vec<IslandKey>
    grabbed_island,    \* Option<Vec<UndoAction>>: [some, v]
    mode,              \* ui.mode
    panicked,          \* an unwrap() or panic!() was hit
    undo_result,       \* the value returned by the last undo_action
    n_events,          \* handler calls so far
    gest,              \* history: the last handler (op), the edge and face it
                       \* was given, the document before it (pre), whether the
                       \* top undo group is exactly what it pushed (live),
                       \* whether it moved an island (moved), after an undo
                       \* the handler that was undone (of) and, after an edit,
                       \* the edit that came right before it (last)
    imp,               \* a mesh import: [kind, input, stage, mesh]
    dlg                \* the options dialog: [open, text, options, error]

vars == << papercraft, undo_stack, modified, selected_islands, grabbed_island,
           mode, panicked, undo_result, n_events, gest, imp, dlg >>

TheModel == from_waveobj(RingObj)
Faces == 1..Len(TheModel.faces)
Edges == 1..Len(TheModel.edges)

Load(doc) == [ model |-> TheModel, options |-> doc.options, edges |-> doc.edges,
               islands |-> doc.islands, slots |-> doc.slots, free |-> doc.free ]
Store(pc) == [ options |-> pc.options, edges |-> pc.edges,
               islands |-> pc.islands, slots |-> pc.slots, free |-> pc.free ]
PC == Load(papercraft)

MouseMode == {"Face", "Edge", "Tab", "ReadOnly"}
None == [some |-> FALSE, v |-> <<>>]
Some(x) == [some |-> TRUE, v |-> x]

\* UndoAction
IslandMove(i_root, prev_rot, prev_loc) ==
    [t |-> "IslandMove", i_root |-> i_root, prev_rot |-> prev_rot, prev_loc |-> prev_loc]
TabToggle(i_edge, tab_side) == [t |-> "TabToggle", i_edge |-> i_edge, tab_side |-> tab_side]
EdgeCut(i_edge) == [t |-> "EdgeCut", i_edge |-> i_edge]
EdgeJoin(join_result) == [t |-> "EdgeJoin", join_result |-> join_result]
DocConfig(options, island_pos) ==
    [t |-> "DocConfig", options |-> options, island_pos |-> island_pos]
Modified == [t |-> "Modified"]

\* ClickResult
ClickNone == [c |-> "None", face |-> 0, edge |-> 0]
ClickFace(f) == [c |-> "Face", face |-> f, edge |-> 0]
ClickEdge(e, f) == [c |-> "Edge", face |-> f, edge |-> e]

\* paper_analyze_click: what a click on the paper can hit in the given mode
ClickableEdges(pc, m) ==
    {e \in Edges : pc.edges[e] # Hidden /\ ~(pc.edges[e] = Joined /\ m = "Tab")}
PaperClicks(pc, m) ==
    {ClickNone} \cup {ClickFace(f) : f \in Faces}
    \cup IF m = "Face" THEN {}
         ELSE {ClickEdge(q[1], q[2]) :
                 q \in {x \in ClickableEdges(pc, m) \X Faces :
                          x[2] \in {TheModel.edges[x[1]].f0, TheModel.edges[x[1]].f1}}}

\* scene_analyze_click: the same on the 3D view, where no face comes with an edge
SceneClicks(pc, m) ==
    {ClickNone} \cup {ClickFace(f) : f \in Faces}
    \cup IF m = "Face" THEN {} ELSE {ClickEdge(e, 0) : e \in ClickableEdges(pc, m)}

\* An alternative that marks every pushed group
PushAlwaysMarked(stack, mod, action) ==
    IF action = <<>> THEN <<stack, mod>>
    ELSE <<Append(stack, Append(action, Modified)), TRUE>>

\* push_undo_action: <<undo_stack', modified'>>
push_undo_action(stack, mod, action) ==
    IF action = <<>> THEN <<stack, mod>>
    ELSE <<Append(stack, IF ~mod THEN Append(action, Modified) ELSE action), TRUE>>

\* islands_renamed: the "while let Some(jr) = renames.get(x)" loop for one key
RECURSIVE RenameKey(_, _)
RenameKey(x, renames) ==
    IF x \in DOMAIN renames THEN RenameKey(renames[x].i_island, renames) ELSE x
islands_renamed(sel, renames) == [i \in 1..Len(sel) |-> RenameKey(sel[i], renames)]

\* renames.values().map(EdgeJoin).collect(), in the order of the keys
RECURSIVE JoinActions(_, _)
JoinActions(renames, ks) ==
    IF ks = <<>> THEN <<>>
    ELSE <<EdgeJoin(renames[Head(ks)])>> \o JoinActions(renames, Tail(ks))

\* The result of an edit: [pc, undo, sel]; undo = None when nothing was done
Edit(pc, undo, sel) == [pc |-> pc, undo |-> undo, sel |-> sel]

\* "if renames.is_empty() { return None; }", else the selection is renamed
\* and the joins become undo actions; r = <<pc', renames>>
JoinEdit(r, sel) ==
    IF DOMAIN r[2] = {} THEN Edit(r[1], None, sel)
    ELSE Edit(r[1], Some(JoinActions(r[2], SortKeys(DOMAIN r[2]))),
              islands_renamed(sel, r[2]))

\* An alternative without the arm for Hidden edges
EdgeToggleCutOfHidden(pc, sel, i_edge, priority_face) ==
    IF pc.edges[i_edge].k # "Cut"
    THEN Edit(edge_cut(pc, i_edge, pc.options.tab_width * 2), Some(<<EdgeCut(i_edge)>>), sel)
    ELSE JoinEdit(edge_join(pc, i_edge, priority_face), sel)

edge_toggle_cut(pc, sel, i_edge, priority_face) ==
    IF pc.edges[i_edge] = Hidden THEN Edit(pc, None, sel)
    ELSE IF pc.edges[i_edge] = Joined
    THEN Edit(edge_cut(pc, i_edge, pc.options.tab_width * 2), Some(<<EdgeCut(i_edge)>>), sel)
    ELSE JoinEdit(edge_join(pc, i_edge, priority_face), sel)

ui_try_join_strip(pc, sel, i_edge) == JoinEdit(try_join_strip(pc, i_edge), sel)

do_edge_action(pc, sel, i_edge, i_face, shift_action) ==
    IF shift_action THEN ui_try_join_strip(pc, sel, i_edge)
    ELSE edge_toggle_cut(pc, sel, i_edge, i_face)

\* do_tab_action with EdgeToggleTabAction::Toggle: the previous side is
\* returned when the edge had a tab to toggle
do_tab_action(pc, sel, i_edge) ==
    LET pc1 == edge_toggle_tab(pc, i_edge)
    IN  IF pc1 = pc THEN Edit(pc, None, sel)
        ELSE Edit(pc1, Some(<<TabToggle(i_edge, pc.edges[i_edge].tab)>>), sel)

\* edge_toggle_tab(i_edge, EdgeToggleTabAction::Set(tab_side))
edge_set_tab(pc, i_edge, tab_side) ==
    IF pc.model.edges[i_edge].f1 # 0 /\ pc.edges[i_edge].k = "Cut"
    THEN [pc EXCEPT !.edges[i_edge] = Cut(tab_side)]
    ELSE pc

\* set_selection(selection, clicked = true, add_to_sel): the new selection
SelectIsland(sel, island, add_to_sel) ==
    IF add_to_sel
    THEN (IF \E n \in 1..Len(sel) : sel[n] = island THEN sel ELSE Append(sel, island))
    ELSE <<island>>

set_selection(pc, sel, selection, add_to_sel) ==
    IF selection.c = "None" THEN (IF ~add_to_sel THEN <<>> ELSE sel)
    ELSE IF selection.c = "Face"
    THEN SelectIsland(sel, island_by_face(pc, selection.face), add_to_sel)
    ELSE sel

\* The orders in which the values of a map can come out
RECURSIVE PermsOf(_)
PermsOf(q) ==
    IF Len(q) <= 1 THEN {q}
    ELSE UNION { {<<q[i]>> \o r : r \in PermsOf(RemoveAt(q, i))} : i \in 1..Len(q) }

NoDoc == [options |-> DefaultOptions, edges |-> <<>>, islands |-> NoRenames,
          slots |-> <<>>, free |-> <<>>]
NoLast == [op |-> "none", edge |-> 0, face |-> 0, pre |-> NoDoc]
Gest(op, edge, face, pre, live) ==
    [op |-> op, edge |-> edge, face |-> face, pre |-> pre, live |-> live,
     moved |-> FALSE, of |-> "none", last |-> NoLast]
Idle(op) == Gest(op, 0, 0, NoDoc, FALSE)

NoImport == [kind |-> "none", input |-> <<>>, stage |-> "done", mesh |-> EmptyMesh]

\* No options dialog is open
NoDialog == [open |-> FALSE, text |-> <<>>, options |-> DefaultOptions, error |-> ""]

\* PapercraftContext::from_papercraft on a freshly imported document
Init ==
    /\ papercraft \in {Store(import_waveobj(RingObj, o)) : o \in PendingOrders(Len(TheModel.faces))}
    /\ undo_stack = <<>>
    /\ modified = FALSE
    /\ selected_islands = <<>>
    /\ grabbed_island = None
    /\ mode = "Face"
    /\ panicked = FALSE
    /\ undo_result = "none"
    /\ n_events = 0
    /\ gest = Idle("init")
    /\ imp = NoImport
    /\ dlg = NoDialog

\* ui.mode is set by the tool buttons of the application
SetMode(m) ==
    /\ ~panicked
    /\ m # mode
    /\ mode' = m
    /\ UNCHANGED << papercraft, undo_stack, modified, selected_islands, grabbed_island,
                    panicked, undo_result, gest, imp, dlg >>

\* What do_edge_action / do_tab_action leave behind: the edited document,
\* the renamed selection and, if something was done, one pushed undo group.
ApplyEdit(ed, op, i_edge, i_face) ==
    /\ papercraft' = Store(ed.pc)
    /\ selected_islands' = ed.sel
    /\ IF ed.undo.some
       THEN /\ \E group \in PermsOf(ed.undo.v) :
                 /\ undo_stack' = push_undo_action(undo_stack, modified, group)[1]
                 /\ modified' = push_undo_action(undo_stack, modified, group)[2]
            /\ gest' = [Gest(op, i_edge, i_face,
                             IF op = "rejoin" THEN gest.pre ELSE papercraft, TRUE)
                          EXCEPT !.last = IF gest.live
                                          THEN [op |-> gest.op, edge |-> gest.edge,
                                                face |-> gest.face, pre |-> gest.pre]
                                          ELSE NoLast]
       ELSE /\ UNCHANGED << undo_stack, modified >>
            /\ gest' = Idle("noop")

\* The root of the island that the cut recorded in gest split off
CutOffRoot ==
    LET new == DOMAIN papercraft.islands \ DOMAIN gest.pre.islands
    IN  IF gest.op = "cut" /\ gest.live /\ Cardinality(new) = 1
        THEN papercraft.islands[CHOOSE k \in new : TRUE].root ELSE 0

EdgeOp(pc, i_edge, i_face, shift_action) ==
    IF shift_action THEN "strip"
    ELSE IF pc.edges[i_edge] = Joined THEN "cut"
    ELSE IF gest.op = "cut" /\ gest.live /\ gest.edge = i_edge /\ i_face # 0
            /\ i_face = CutOffRoot
    THEN "rejoin"
    ELSE "join"

Select(selection, add_to_sel) ==
    LET hit == IF selection.c = "Face" THEN island_by_face(PC, selection.face) ELSE NoKey
    IN  IF selection.c = "Face" /\ hit = NoKey
        THEN /\ panicked' = TRUE
             /\ UNCHANGED selected_islands
        ELSE /\ selected_islands' = set_selection(PC, selected_islands, selection, add_to_sel)
             /\ UNCHANGED panicked

scene_button1_release_event(selection, shift_action, add_to_sel) ==
    /\ ~panicked
    /\ selection \in SceneClicks(PC, mode)
    /\ UNCHANGED << mode, undo_result, grabbed_island, imp, dlg >>
    /\ IF mode = "Edge" /\ selection.c = "Edge"
       THEN /\ ApplyEdit(do_edge_action(PC, selected_islands, selection.edge, 0, shift_action),
                         EdgeOp(PC, selection.edge, 0, shift_action), selection.edge, 0)
            /\ UNCHANGED panicked
       ELSE IF mode = "Tab" /\ selection.c = "Edge"
       THEN /\ ~shift_action
            /\ ApplyEdit(do_tab_action(PC, selected_islands, selection.edge), "tab",
                         selection.edge, 0)
            /\ UNCHANGED panicked
       ELSE IF selection.c \in {"Face", "None"}
       THEN /\ Select(selection, add_to_sel)
            /\ gest' = Idle("select")
            /\ UNCHANGED << papercraft, undo_stack, modified >>
       ELSE UNCHANGED << papercraft, undo_stack, modified, selected_islands, panicked, gest >>

\* The IslandMove snapshots of the selected islands
Snapshots(pc, sel) ==
    [i \in 1..Len(sel) |->
        IslandMove(pc.islands[sel[i]].root, pc.islands[sel[i]].rot, pc.islands[sel[i]].loc)]

\* A click on a face of the paper: hit is the island under the pointer and
\* sel the selection after set_selection; with a modifiable document the
\* selected islands are snapshot into grabbed_island
ClickOnFace(selection, modifiable, hit, sel) ==
    /\ UNCHANGED << papercraft, undo_stack, modified >>
    /\ IF hit = NoKey
       THEN /\ panicked' = TRUE
            /\ UNCHANGED << selected_islands, grabbed_island, gest >>
       ELSE IF modifiable /\ (\E i \in 1..Len(sel) : sel[i] \notin DOMAIN papercraft.islands)
       THEN /\ panicked' = TRUE
            /\ selected_islands' = sel
            /\ UNCHANGED << grabbed_island, gest >>
       ELSE /\ selected_islands' = sel
            /\ UNCHANGED panicked
            /\ IF modifiable
               THEN /\ grabbed_island' = Some(grabbed_island.v \o Snapshots(PC, sel))
                    /\ gest' = IF grabbed_island.some THEN Idle("reclick")
                               ELSE Gest("click", 0, selection.face, papercraft, FALSE)
               ELSE /\ UNCHANGED grabbed_island
                    /\ gest' = Idle("select")

paper_button1_click_event(selection, shift_action, add_to_sel, modifiable) ==
    /\ ~panicked
    /\ selection \in PaperClicks(PC, mode)
    /\ UNCHANGED << mode, undo_result, imp, dlg >>
    /\ IF mode = "Edge" /\ selection.c = "Edge"
       THEN /\ grabbed_island' = None
            /\ ApplyEdit(do_edge_action(PC, selected_islands, selection.edge, selection.face,
                                        shift_action),
                         EdgeOp(PC, selection.edge, selection.face, shift_action),
                         selection.edge, selection.face)
            /\ UNCHANGED panicked
       ELSE IF mode = "Tab" /\ selection.c = "Edge"
       THEN /\ ~shift_action
            /\ ApplyEdit(do_tab_action(PC, selected_islands, selection.edge), "tab",
                         selection.edge, selection.face)
            /\ UNCHANGED << panicked, grabbed_island >>
       ELSE IF selection.c = "Face"
       THEN ClickOnFace(selection, modifiable, island_by_face(PC, selection.face),
                        set_selection(PC, selected_islands, selection, add_to_sel))
       ELSE IF selection.c = "None"
       THEN /\ grabbed_island' = None
            /\ Select(selection, add_to_sel)
            /\ gest' = Idle("select")
            /\ UNCHANGED << papercraft, undo_stack, modified >>
       ELSE UNCHANGED << papercraft, undo_stack, modified, selected_islands, panicked,
                         grabbed_island, gest >>

\* Pointer inputs of a grab event, already mapped to paper coordinates:
\* the translation delta_scaled, the rotation angle and its centre.
GrabDeltas == { <<10, 0>>, <<0, 0 - 400>> }
GrabAngles == { 1 }
GrabCenters == { <<0, 0>> }

\* "for &i_island in &self.selected_islands { if let Some(island) = ... }"
RECURSIVE MoveIslands(_, _, _, _, _, _, _)
MoveIslands(pc, sel, k, rotating, delta_scaled, angle, pcenter) ==
    IF k > Len(sel) THEN pc
    ELSE MoveIslands(IF sel[k] \in DOMAIN pc.islands
                     THEN [pc EXCEPT !.islands[sel[k]] =
                              IF rotating THEN rotate(@, angle, pcenter)
                              ELSE translate(@, delta_scaled)]
                     ELSE pc,
                     sel, k + 1, rotating, delta_scaled, angle, pcenter)

\* rotating: the pointer is far enough from the centre (near = FALSE) or not
paper_button1_grab_event(rotating, near, delta_scaled, angle, pcenter) ==
    /\ ~panicked
    /\ UNCHANGED << mode, undo_result, panicked, selected_islands, imp, dlg >>
    /\ IF selected_islands = <<>> \/ ~grabbed_island.some
       THEN UNCHANGED << papercraft, undo_stack, modified, grabbed_island, gest >>
       ELSE
       LET undo == grabbed_island.v
           pushed == push_undo_action(undo_stack, modified, undo)
           rejected == \E i \in 1..Len(selected_islands) :
                          /\ selected_islands[i] \in DOMAIN papercraft.islands
                          /\ ~is_inside_canvas(papercraft.options,
                                VAdd(papercraft.islands[selected_islands[i]].loc, delta_scaled))
       IN  /\ grabbed_island' = Some(<<>>)
           /\ undo_stack' = pushed[1]
           /\ modified' = pushed[2]
           /\ papercraft' =
                IF rotating
                THEN (IF near THEN papercraft
                      ELSE Store(MoveIslands(PC, selected_islands, 1, TRUE,
                                             delta_scaled, angle, pcenter)))
                ELSE (IF rejected THEN papercraft
                      ELSE Store(MoveIslands(PC, selected_islands, 1, FALSE,
                                             delta_scaled, angle, pcenter)))
           /\ gest' = IF (gest.op = "click" /\ undo # <<>>) \/ (gest.op = "move" /\ undo = <<>>)
                      THEN [gest EXCEPT !.op = "move", !.live = TRUE,
                                        !.moved = @ \/ papercraft' # papercraft]
                      ELSE Idle("grab")

paper_hover_event ==
    /\ ~panicked
    /\ grabbed_island' = None
    /\ UNCHANGED << papercraft, undo_stack, modified, selected_islands, mode, panicked,
                    undo_result, gest, imp, dlg >>

\* PapercraftContext::pack_islands, its result pushed as one group
ui_pack_islands ==
    LET ks == IslandKeySeq(PC)
        undo_actions == [i \in 1..Len(ks) |->
                            IslandMove(papercraft.islands[ks[i]].root,
                                       papercraft.islands[ks[i]].rot,
                                       papercraft.islands[ks[i]].loc)]
        pushed == push_undo_action(undo_stack, modified, undo_actions)
    IN  /\ ~panicked
        /\ papercraft' = Store(pack_islands(PC)[1])
        /\ undo_stack' = pushed[1]
        /\ modified' = pushed[2]
        /\ gest' = [Gest("pack", 0, 0, papercraft, TRUE) EXCEPT
                        !.moved = papercraft' # papercraft]
        /\ UNCHANGED << selected_islands, grabbed_island, mode, panicked, undo_result,
                        imp, dlg >>

\* The island_pos of set_papercraft_options: (root, (rotation, location)) of
\* every island, here as a sequence in the order of the islands
IslandPositions(pc, ks) ==
    [i \in 1..Len(ks) |-> [root |-> pc.islands[ks[i]].root, rot |-> pc.islands[ks[i]].rot,
                           loc |-> pc.islands[ks[i]].loc]]

\* The scaled offsets of all the islands are in the lattice
OptionsAreExact(pc, options) ==
    \A k \in DOMAIN pc.islands :
        OffsetIsExact(global_to_page(pc.options, pc.islands[k].loc),
                      options.scale, pc.options.scale)

\* PapercraftContext::set_papercraft_options; the map island_pos is kept in
\* the order in which the undo will iterate it
set_papercraft_options(options) ==
    /\ ~panicked
    /\ OptionsAreExact(PC, options)
    /\ papercraft' = Store(set_options(PC, options))
    /\ \E island_pos \in PermsOf(IslandPositions(PC, IslandKeySeq(PC))) :
          /\ undo_stack' = push_undo_action(undo_stack, modified,
                                            <<DocConfig(papercraft.options, island_pos)>>)[1]
          /\ modified' = push_undo_action(undo_stack, modified,
                                          <<DocConfig(papercraft.options, island_pos)>>)[2]
    /\ gest' = [Gest("options", 0, 0, papercraft, TRUE) EXCEPT
                    !.moved = papercraft'.islands # papercraft.islands]
    /\ UNCHANGED << selected_islands, grabbed_island, mode, panicked, undo_result, imp, dlg >>

\* UndoAction::DocConfig: "for (i_root_face, (rot, loc)) in island_pos"
RECURSIVE ResetIslands(_, _, _)
ResetIsland(st, island_pos, k, i_island) ==
    IF i_island = NoKey THEN [st EXCEPT !.panicked = TRUE]
    ELSE ResetIslands([st EXCEPT !.pc.islands[i_island] =
                          reset_transformation(@, island_pos[k].root, island_pos[k].rot,
                                               island_pos[k].loc)],
                      island_pos, k + 1)
ResetIslands(st, island_pos, k) ==
    IF k > Len(island_pos) THEN st
    ELSE ResetIsland(st, island_pos, k, island_by_face(st.pc, island_pos[k].root))

\* An alternative that restores the options alone
UndoConfigOptionsOnly(st, action) ==
    [st EXCEPT !.pc = set_options(st.pc, action.options), !.res = "ModelAndOptions"]

UndoConfig(st, action) ==
    ResetIslands([st EXCEPT !.pc = set_options(st.pc, action.options),
                            !.res = "ModelAndOptions"],
                 action.island_pos, 1)

\* One arm of the match in undo_action; st = [pc, modified, panicked, res]
\* UndoAction::IslandMove: "if let Some(i_island) = island_by_root(i_root)"
UndoMove(st, action, i_island) ==
    IF i_island = NoKey THEN st
    ELSE [st EXCEPT !.pc.islands[i_island] =
             reset_transformation(@, action.i_root, action.prev_rot, action.prev_loc)]

\* UndoAction::EdgeJoin: pc1 is the document after edge_cut(i_edge, None)
UndoJoinReset(st, jr, pc1, i_prev_island) ==
    IF i_prev_island = NoKey THEN [st EXCEPT !.pc = pc1, !.panicked = TRUE]
    ELSE [st EXCEPT !.pc = [pc1 EXCEPT !.islands[i_prev_island] =
             reset_transformation(@, jr.prev_root, jr.prev_rot, jr.prev_loc)]]
\* An alternative that cuts the edge and resets no island
UndoJoinCutOnly(st, jr, pc1) == [st EXCEPT !.pc = pc1]
UndoJoin(st, jr, pc1) == UndoJoinReset(st, jr, pc1, island_by_face(pc1, jr.prev_root))

UndoOne(st, action) ==
    IF st.panicked THEN st
    ELSE IF action.t = "IslandMove"
    THEN UndoMove(st, action, island_by_root(st.pc, action.i_root))
    ELSE IF action.t = "TabToggle"
    THEN [st EXCEPT !.pc = edge_set_tab(st.pc, action.i_edge, action.tab_side)]
    ELSE IF action.t = "EdgeCut"
    THEN [st EXCEPT !.pc = edge_join(st.pc, action.i_edge, 0)[1]]
    ELSE IF action.t = "EdgeJoin"
    THEN UndoJoin(st, action.join_result, edge_cut(st.pc, action.join_result.i_edge, 0 - 1))
    ELSE IF action.t = "DocConfig"
    THEN UndoConfig(st, action)
    ELSE IF action.t = "Modified"
    THEN [st EXCEPT !.modified = FALSE]
    ELSE st

\* "for action in action_pack.into_iter().rev()"
RECURSIVE UndoPack(_, _, _)
UndoPack(st, action_pack, k) ==
    IF k = 0 THEN st
    ELSE UndoPack(UndoOne(st, action_pack[k]), action_pack, k - 1)

\* An alternative without the guard
UndoGuardOff == FALSE

\* "Do not undo while grabbing or the stack will be messed up"
UndoGuard == grabbed_island.some

\* The popped group is undone: st is the state after its last action
UndoDone(st) ==
    /\ undo_stack' = SubSeq(undo_stack, 1, Len(undo_stack) - 1)
    /\ papercraft' = Store(st.pc)
    /\ modified' = st.modified
    /\ panicked' = st.panicked
    /\ undo_result' = st.res
    /\ gest' = IF gest.live
               THEN [gest EXCEPT !.op = "undo", !.live = FALSE, !.of = gest.op]
               ELSE Idle("undo")

undo_action ==
    /\ ~panicked
    /\ UNCHANGED << selected_islands, grabbed_island, mode, imp, dlg >>
    /\ IF UndoGuard \/ undo_stack = <<>>
       THEN /\ undo_result' = "False"
            /\ gest' = [gest EXCEPT !.of = "refused"]
            /\ UNCHANGED << papercraft, undo_stack, modified, panicked >>
       ELSE UndoDone(UndoPack([pc |-> PC, modified |-> modified, panicked |-> FALSE,
                               res |-> "Model"],
                              undo_stack[Len(undo_stack)], Len(undo_stack[Len(undo_stack)])))

(***************************************************************************)
(* Specifications of the editing session.  Each keeps to the handlers of   *)
(* one kind of gesture and to a bounded number of handler calls, so that   *)
(* every state of it can be visited.  The tool buttons that set ui.mode    *)
(* are no handlers of PapercraftContext and are not counted.               *)
(***************************************************************************)
(***************************************************************************)
(* The options dialog (src/src/options_dlg.rs)                             *)
(*                                                                         *)
(* dlg.text is what parse() makes of each entry: [ok, x], ok = FALSE when  *)
(* the text is not a number.  dlg.options is the dialog's own copy of the  *)
(* options, written field by field by the response handler.               *)
(***************************************************************************)
Controls == << "scale", "pages", "columns", "width", "height", "resolution",
               "margin_top", "margin_left", "margin_right", "margin_bottom",
               "tab_width", "tab_angle" >>

Parsed(x) == [ok |-> TRUE, x |-> x]
Unparsable == [ok |-> FALSE, x |-> 0]

\* set_text(&options.<field>.to_string()) of every entry
TextOf(options) ==
    [c \in {Controls[k] : k \in 1..Len(Controls)} |->
        Parsed(CASE c = "scale" -> options.scale
                 [] c = "pages" -> options.pages
                 [] c = "columns" -> options.page_cols
                 [] c = "width" -> options.page_size[1]
                 [] c = "height" -> options.page_size[2]
                 [] c = "resolution" -> options.resolution
                 [] c = "margin_top" -> options.margin[1]
                 [] c = "margin_left" -> options.margin[2]
                 [] c = "margin_right" -> options.margin[3]
                 [] c = "margin_bottom" -> options.margin[4]
                 [] c = "tab_width" -> options.tab_width
                 [] c = "tab_angle" -> options.tab_angle)]

\* An alternative that takes the two ends of the range
DpiIsValidInclusive(x) == x >= 72 /\ x <= 1200

DpiIsValid(x) == x > 72 /\ x < 1200

\* The $cond of each ctrl_value! line; a scale is a whole number here, so
\* "x > 0.0001" is x > 0
CtrlCond(c, x) ==
    CASE c = "resolution" -> DpiIsValid(x)
      [] c \in {"margin_top", "margin_left", "margin_right", "margin_bottom"} -> x >= 0
      [] OTHER -> x > 0

\* options.borrow_mut().$option = x
CtrlStore(options, c, x) ==
    CASE c = "scale" -> [options EXCEPT !.scale = x]
      [] c = "pages" -> [options EXCEPT !.pages = x]
      [] c = "columns" -> [options EXCEPT !.page_cols = x]
      [] c = "width" -> [options EXCEPT !.page_size[1] = x]
      [] c = "height" -> [options EXCEPT !.page_size[2] = x]
      [] c = "resolution" -> [options EXCEPT !.resolution = x]
      [] c = "margin_top" -> [options EXCEPT !.margin[1] = x]
      [] c = "margin_left" -> [options EXCEPT !.margin[2] = x]
      [] c = "margin_right" -> [options EXCEPT !.margin[3] = x]
      [] c = "margin_bottom" -> [options EXCEPT !.margin[4] = x]
      [] c = "tab_width" -> [options EXCEPT !.tab_width = x]
      [] c = "tab_angle" -> [options EXCEPT !.tab_angle = x]

\* The ctrl_value! lines from the k-th on: the options written so far and
\* the control of the first line that returned early ("" if none did)
RECURSIVE ctrl_value(_, _, _)
ctrl_value(text, options, k) ==
    IF k > Len(Controls) THEN [options |-> options, error |-> ""]
    ELSE IF text[Controls[k]].ok /\ CtrlCond(Controls[k], text[Controls[k]].x)
    THEN ctrl_value(text, CtrlStore(options, Controls[k], text[Controls[k]].x), k + 1)
    ELSE [options |-> options, error |-> Controls[k]]

do_options_dialog ==
    /\ ~panicked
    /\ ~dlg.open
    /\ dlg' = [open |-> TRUE, text |-> TextOf(papercraft.options),
                options |-> papercraft.options, error |-> ""]
    /\ gest' = Idle("dialog")
    /\ UNCHANGED << papercraft, undo_stack, modified, selected_islands, grabbed_island,
                    mode, panicked, undo_result, imp >>

\* The user types in the entries
options_text_changed(text) ==
    /\ dlg.open
    /\ dlg' = [dlg EXCEPT !.text = text]
    /\ gest' = Idle("text")
    /\ UNCHANGED << papercraft, undo_stack, modified, selected_islands, grabbed_island,
                    mode, panicked, undo_result, imp >>

\* The response handler and, when it lets the response through, the commit
\* after dlg.run(): r is what the ctrl_value! lines left
ResponseOk(r) ==
    IF r.error # ""
    THEN /\ dlg' = [dlg EXCEPT !.options = r.options, !.error = r.error]
         /\ UNCHANGED papercraft
    ELSE /\ OptionsAreExact(PC, r.options)
         /\ papercraft' = Store(set_options(PC, r.options))
         /\ dlg' = NoDialog

options_response(res) ==
    /\ dlg.open
    /\ gest' = Idle(IF res = "Ok" THEN "response" ELSE "dialog")
    /\ UNCHANGED << undo_stack, modified, selected_islands, grabbed_island,
                    mode, panicked, undo_result, imp >>
    /\ IF res = "Ok"
       THEN ResponseOk(ctrl_value(dlg.text, dlg.options, 1))
       ELSE /\ dlg' = NoDialog
            /\ UNCHANGED papercraft

Tick(max) == n_events < max /\ n_events' = n_events + 1

\* The pointer is brought to the first face of the first two source polygons
\* and to the edges around the first source polygon: the two it shares with
\* its neighbours and the first edge of its rim.
ClickedFaces ==
    {f \in Faces : /\ TheModel.facemap[f] <= 2
                   /\ \A g \in Faces : TheModel.facemap[g] = TheModel.facemap[f] => f <= g}
ClickedEdges ==
    {e \in Edges : /\ TheModel.edges[e].f1 # 0
                   /\ TheModel.facemap[TheModel.edges[e].f0] # TheModel.facemap[TheModel.edges[e].f1]
                   /\ 1 \in {TheModel.facemap[TheModel.edges[e].f0],
                              TheModel.facemap[TheModel.edges[e].f1]}}
    \cup {CHOOSE e \in Edges : /\ TheModel.edges[e].f1 = 0
                               /\ \A d \in Edges : TheModel.edges[d].f1 = 0 => e <= d}

FaceClicks == {ClickNone} \cup {ClickFace(f) : f \in ClickedFaces}
EdgeClicks(S) == {c \in S : c.c = "Edge" /\ c.edge \in ClickedEdges}

\* Cutting, joining and tab editing on the paper and on the 3D view
NextEdit ==
    \/ \E m \in {"Edge", "Tab"} : SetMode(m) /\ UNCHANGED n_events
    \/ /\ Tick(MaxEdits)
       /\ \E selection \in EdgeClicks(PaperClicks(PC, mode)), shift_action \in BOOLEAN :
            paper_button1_click_event(selection, shift_action, FALSE, FALSE)
    \/ /\ Tick(MaxEdits)
       /\ \E selection \in EdgeClicks(SceneClicks(PC, mode)) :
            scene_button1_release_event(selection, FALSE, FALSE)
    \/ Tick(MaxEdits) /\ undo_action

SpecEdit == Init /\ [][NextEdit]_vars

\* Selecting, dragging and packing islands on the paper
NextMove ==
    \/ /\ Tick(MaxMoves)
       /\ \E selection \in FaceClicks, add_to_sel, modifiable \in BOOLEAN :
            paper_button1_click_event(selection, FALSE, add_to_sel, modifiable)
    \/ /\ Tick(MaxMoves)
       /\ \E delta_scaled \in GrabDeltas :
            paper_button1_grab_event(FALSE, FALSE, delta_scaled, 0, <<0, 0>>)
    \/ /\ Tick(MaxMoves)
       /\ \E near \in BOOLEAN, angle \in GrabAngles, pcenter \in GrabCenters :
            paper_button1_grab_event(TRUE, near, <<0, 0>>, angle, pcenter)
    \/ Tick(MaxMoves) /\ paper_hover_event
    \/ Tick(MaxMoves) /\ ui_pack_islands
    \/ Tick(MaxMoves) /\ undo_action

SpecMove == Init /\ [][NextMove]_vars

\* The options the dialog is confirmed with: the scale and the number of
\* columns of pages
OptionChoices ==
    { [DefaultOptions EXCEPT !.scale = sc, !.page_cols = cols] :
        sc \in {1, 4}, cols \in {1, 2} }

\* Changing the options of a document whose islands are moved about
NextOptions ==
    \/ /\ Tick(MaxOptionEvents)
       /\ \E options \in OptionChoices : set_papercraft_options(options)
    \/ /\ Tick(MaxOptionEvents)
       /\ \E selection \in FaceClicks :
            paper_button1_click_event(selection, FALSE, FALSE, TRUE)
    \/ /\ Tick(MaxOptionEvents)
       /\ \E delta_scaled \in GrabDeltas :
            paper_button1_grab_event(FALSE, FALSE, delta_scaled, 0, <<0, 0>>)
    \/ Tick(MaxOptionEvents) /\ paper_hover_event
    \/ Tick(MaxOptionEvents) /\ undo_action

SpecOptions == Init /\ [][NextOptions]_vars

\* Pointer events with the read-only tool: the tool is changed between
\* gestures (nothing grabbed), and a press on the paper is the start of a
\* press-drag-release gesture (modifiable) or a plain click
MaxPointerEvents == 4
NextReadOnly ==
    \/ /\ ~grabbed_island.some
       /\ \E m \in {"Face", "ReadOnly"} : SetMode(m) /\ UNCHANGED n_events
    \/ /\ Tick(MaxPointerEvents)
       /\ \E selection \in FaceClicks \cup EdgeClicks(SceneClicks(PC, mode)) :
            scene_button1_release_event(selection, FALSE, FALSE)
    \/ /\ Tick(MaxPointerEvents)
       /\ \E selection \in FaceClicks \cup EdgeClicks(PaperClicks(PC, mode)),
             modifiable \in BOOLEAN :
            paper_button1_click_event(selection, FALSE, FALSE, modifiable)
    \/ /\ Tick(MaxPointerEvents)
       /\ \E delta_scaled \in GrabDeltas :
            paper_button1_grab_event(FALSE, FALSE, delta_scaled, 0, <<0, 0>>)
    \/ Tick(MaxPointerEvents) /\ paper_hover_event

SpecReadOnly == Init /\ [][NextReadOnly]_vars

\* A whole session: it may start with packs and changes of options, edits
\* and drags follow, and undo at any time.  imp.input keeps the document the
\* session was opened with.
MaxSessionEvents == 4
MaxSetupEvents == 1
InitSession ==
    /\ papercraft \in {Store(import_waveobj(RingObj, o)) : o \in PendingOrders(Len(TheModel.faces))}
    /\ undo_stack = <<>>
    /\ modified = FALSE
    /\ selected_islands = <<>>
    /\ grabbed_island = None
    /\ mode = "Face"
    /\ panicked = FALSE
    /\ undo_result = "none"
    /\ n_events = 0
    /\ gest = Idle("init")
    /\ imp = [kind |-> "document", input |-> papercraft, stage |-> "done", mesh |-> EmptyMesh]
    /\ dlg = NoDialog

NextSession ==
    \/ /\ ~grabbed_island.some
       /\ SetMode("Edge") /\ UNCHANGED n_events
    \/ /\ Tick(MaxSessionEvents)
       /\ \E selection \in EdgeClicks(PaperClicks(PC, mode)), shift_action \in BOOLEAN :
            paper_button1_click_event(selection, shift_action, FALSE, FALSE)
    \/ /\ Tick(MaxSessionEvents)
       /\ \E selection \in FaceClicks, add_to_sel, modifiable \in BOOLEAN :
            paper_button1_click_event(selection, FALSE, add_to_sel, modifiable)
    \/ /\ Tick(MaxSessionEvents)
       /\ paper_button1_grab_event(FALSE, FALSE, <<10, 0>>, 0, <<0, 0>>)
    \/ Tick(MaxSessionEvents) /\ paper_hover_event
    \/ Tick(MaxSetupEvents) /\ ui_pack_islands
    \/ /\ Tick(MaxSetupEvents)
       /\ set_papercraft_options([DefaultOptions EXCEPT !.scale = 4])
    \/ Tick(MaxSessionEvents) /\ undo_action

SpecSession == InitSession /\ [][NextSession]_vars

\* Confirming the options dialog: the entries are the current options with
\* a new scale and number of columns and one entry made invalid, or the
\* default options with two
MaxDialogEvents == 4
BadText ==
    [c \in {Controls[k] : k \in 1..Len(Controls)} |->
        CASE c = "height" -> {Unparsable}
          [] c = "resolution" -> {Parsed(72), Parsed(1200)}
          [] c \in {"margin_top", "margin_left", "margin_right", "margin_bottom"} ->
               {Parsed(0 - 1)}
          [] OTHER -> {Parsed(0)}]
GoodTexts == { TextOf(o) : o \in OptionChoices }
WithBad(T) ==
    UNION { { [t EXCEPT ![c] = b] : b \in BadText[c] } : t \in T, c \in DOMAIN BadText }
DialogTexts ==
    GoodTexts \cup WithBad(GoodTexts) \cup WithBad(WithBad({TextOf(DefaultOptions)}))

NextDialog ==
    \/ do_options_dialog /\ UNCHANGED n_events
    \/ Tick(MaxDialogEvents) /\ \E text \in DialogTexts : options_text_changed(text)
    \/ Tick(MaxDialogEvents) /\ options_response("Ok")
    \/ Tick(MaxDialogEvents) /\ options_response("Cancel")

SpecDialog == Init /\ [][NextDialog]_vars

(***************************************************************************)
(* Importing a mesh: the two readers of src/src/paper/model.rs on small    *)
(* polygon soups, some with a polygon that runs along one edge and back.   *)
(***************************************************************************)
VertexPos == << <<0, 0>>, <<90, 0>>, <<90, 90>>, <<0, 90>>, <<180, 0>> >>
ObjPoly(vs) == [v |-> vs, p |-> [i \in 1..Len(vs) |-> VertexPos[vs[i]]]]
PdoPoly(i_o, vs) ==
    [v |-> [i \in 1..Len(vs) |-> <<i_o, vs[i]>>], p |-> [i \in 1..Len(vs) |-> VertexPos[vs[i]]]]

PolygonPool == { <<1, 2, 3>>, <<2, 1, 2>>, <<1, 3, 4>>, <<1, 2, 1, 3, 4>>, <<2, 5, 3>> }
SmallPool == { <<1, 2, 3>>, <<2, 1, 2>>, <<1, 3, 4>> }
SeqsUpTo(S, n) == UNION { [1..k -> S] : k \in 1..n }

ObjInputs == { [i \in 1..Len(q) |-> ObjPoly(q[i])] : q \in SeqsUpTo(PolygonPool, MaxPolygons) }
PdoObject(i_o, q) == [i \in 1..Len(q) |-> PdoPoly(i_o, q[i])]
PdoInputs ==
    { <<PdoObject(1, q)>> : q \in SeqsUpTo(PolygonPool, MaxPolygons) }
    \cup { <<PdoObject(1, q[1]), PdoObject(2, q[2])>> :
              q \in SeqsUpTo(SmallPool, MaxObjectPolygons) \X SeqsUpTo(SmallPool, MaxObjectPolygons) }

InitImport ==
    /\ papercraft = Store(import_waveobj(RingObj, [i \in 1..Len(TheModel.faces) |-> i]))
    /\ undo_stack = <<>>
    /\ modified = FALSE
    /\ selected_islands = <<>>
    /\ grabbed_island = None
    /\ mode = "Face"
    /\ panicked = FALSE
    /\ undo_result = "none"
    /\ n_events = 0
    /\ gest = Idle("init")
    /\ imp \in { [kind |-> "obj", input |-> o, stage |-> "read", mesh |-> EmptyMesh] :
                    o \in ObjInputs }
              \cup { [kind |-> "pdo", input |-> o, stage |-> "read", mesh |-> EmptyMesh] :
                       o \in PdoInputs }
    /\ dlg = NoDialog

Session == << papercraft, undo_stack, modified, selected_islands, grabbed_island,
              mode, panicked, undo_result, n_events, gest, dlg >>

LoadWaveobj ==
    /\ imp.kind = "obj" /\ imp.stage = "read"
    /\ imp' = [imp EXCEPT !.stage = "done", !.mesh = from_waveobj(imp.input)]
    /\ UNCHANGED Session

LoadPepakura ==
    /\ imp.kind = "pdo" /\ imp.stage = "read"
    /\ imp' = [imp EXCEPT !.stage = "done", !.mesh = from_pepakura(imp.input)]
    /\ UNCHANGED Session

NextImport == LoadWaveobj \/ LoadPepakura

SpecImport == InitImport /\ [][NextImport]_vars

(***************************************************************************)
(* Joining and cutting on the band of four quads: the operations of        *)
(* src/src/paper/craft.rs called on the document itself.  imp.mesh is the  *)
(* document, imp.input the document before the last call, imp.stage the    *)
(* call and imp.edge the edge it was given.                                *)
(***************************************************************************)
MaxStripEvents == 3
StripMesh == from_waveobj(Ring4Obj)
LoadStrip(doc) == [ model |-> StripMesh, options |-> doc.options, edges |-> doc.edges,
                    islands |-> doc.islands, slots |-> doc.slots, free |-> doc.free ]
StripShared ==
    {e \in 1..Len(StripMesh.edges) :
        /\ StripMesh.edges[e].f1 # 0
        /\ StripMesh.facemap[StripMesh.edges[e].f0] # StripMesh.facemap[StripMesh.edges[e].f1]}

InitStrip ==
    /\ papercraft = Store(import_waveobj(RingObj, [i \in 1..Len(TheModel.faces) |-> i]))
    /\ undo_stack = <<>>
    /\ modified = FALSE
    /\ selected_islands = <<>>
    /\ grabbed_island = None
    /\ mode = "Face"
    /\ panicked = FALSE
    /\ undo_result = "none"
    /\ n_events = 0
    /\ gest = Idle("init")
    /\ dlg = NoDialog
    /\ imp \in { [kind |-> "strip", input |-> Store(import_waveobj(Ring4Obj, o)),
                   stage |-> "import", mesh |-> Store(import_waveobj(Ring4Obj, o)),
                   edge |-> 0] : o \in PendingOrders(Len(StripMesh.faces)) }

StripCall(stage, i_edge, pc) ==
    /\ imp' = [imp EXCEPT !.input = imp.mesh, !.stage = stage, !.edge = i_edge,
                           !.mesh = Store(pc)]
    /\ UNCHANGED << papercraft, undo_stack, modified, selected_islands, grabbed_island,
                    mode, panicked, undo_result, gest, dlg >>

StripEdgeJoin(i_edge) ==
    /\ imp.kind = "strip"
    /\ StripCall("join", i_edge, edge_join(LoadStrip(imp.mesh), i_edge, 0)[1])

StripEdgeCut(i_edge) ==
    /\ imp.kind = "strip"
    /\ StripCall("cut", i_edge, edge_cut(LoadStrip(imp.mesh), i_edge, 0 - 1))

StripTryJoin(i_edge) ==
    /\ imp.kind = "strip"
    /\ StripCall("strip", i_edge, try_join_strip(LoadStrip(imp.mesh), i_edge)[1])

NextStrip ==
    \/ Tick(MaxStripEvents) /\ \E i_edge \in StripShared : StripEdgeJoin(i_edge)
    \/ Tick(MaxStripEvents) /\ \E i_edge \in StripShared : StripEdgeCut(i_edge)
    \/ Tick(MaxStripEvents) /\ \E i_edge \in 1..Len(StripMesh.edges) : StripTryJoin(i_edge)

SpecStrip == InitStrip /\ [][NextStrip]_vars

\* Papercraft::import_waveobj on the cube of six quads and on every object
\* made of some of its quads: imp.input is the object, imp.mesh the mesh and
\* imp.doc the document that the import returns
CubeObj ==
    Ring4Obj \o << [ v |-> <<5, 6, 7, 8>>,
                     p |-> << <<0, 0>>, <<90, 0>>, <<90, 90>>, <<0, 90>> >> ],
                   [ v |-> <<4, 3, 2, 1>>,
                     p |-> << <<0, 0>>, <<90, 0>>, <<90, 90>>, <<0, 90>> >> ] >>

RECURSIVE PickQuads(_, _)
PickQuads(obj, picked) ==
    IF obj = <<>> THEN <<>>
    ELSE (IF Len(obj) \in picked THEN PickQuads(SubSeq(obj, 1, Len(obj) - 1), picked)
                                         \o <<obj[Len(obj)]>>
          ELSE PickQuads(SubSeq(obj, 1, Len(obj) - 1), picked))
CubeParts == { PickQuads(CubeObj, picked) : picked \in (SUBSET (1..Len(CubeObj))) \ {{}} }

InitImportDoc ==
    /\ papercraft = Store(import_waveobj(RingObj, [i \in 1..Len(TheModel.faces) |-> i]))
    /\ undo_stack = <<>>
    /\ modified = FALSE
    /\ selected_islands = <<>>
    /\ grabbed_island = None
    /\ mode = "Face"
    /\ panicked = FALSE
    /\ undo_result = "none"
    /\ n_events = 0
    /\ gest = Idle("init")
    /\ dlg = NoDialog
    /\ imp \in { [kind |-> "import", input |-> o, stage |-> "read", mesh |-> EmptyMesh,
                   doc |-> NoDoc] : o \in CubeParts }

\* order is the order in which the set of pending faces gives its faces
ImportWaveobj(order) ==
    /\ imp.kind = "import" /\ imp.stage = "read"
    /\ imp' = [imp EXCEPT !.stage = "done", !.mesh = from_waveobj(imp.input),
                           !.doc = Store(import_waveobj(imp.input, order))]
    /\ UNCHANGED Session

NextImportDoc ==
    \E order \in PendingOrders(2 * Len(imp.input)) : ImportWaveobj(order)

SpecImportDoc == InitImportDoc /\ [][NextImportDoc]_vars

\* try_join_strip run one iteration of its loop at a time, on the ring of
\* four quads: imp.mesh is the document, imp.i_edges the vector of pending
\* edges, imp.input the document when the call began, imp.edge the seed
MaxLoopEvents == 3

InitLoop ==
    /\ papercraft = Store(import_waveobj(RingObj, [i \in 1..Len(TheModel.faces) |-> i]))
    /\ undo_stack = <<>>
    /\ modified = FALSE
    /\ selected_islands = <<>>
    /\ grabbed_island = None
    /\ mode = "Face"
    /\ panicked = FALSE
    /\ undo_result = "none"
    /\ n_events = 0
    /\ gest = Idle("init")
    /\ dlg = NoDialog
    /\ imp \in { [kind |-> "loop", input |-> Store(import_waveobj(Ring4Obj, o)),
                   stage |-> "done", mesh |-> Store(import_waveobj(Ring4Obj, o)),
                   edge |-> 0, i_edges |-> <<>>] : o \in PendingOrders(Len(StripMesh.faces)) }

LoopStep(stage, i_edge, r) ==
    /\ imp' = [imp EXCEPT !.stage = stage, !.edge = i_edge, !.mesh = Store(r[1]),
                           !.i_edges = r[2]]
    /\ UNCHANGED << papercraft, undo_stack, modified, selected_islands, grabbed_island,
                    mode, panicked, undo_result, gest, dlg >>

\* edge_join and edge_cut between two calls of try_join_strip
LoopEdgeJoin(i_edge) ==
    /\ imp.kind = "loop" /\ imp.stage = "done"
    /\ LoopStep("done", 0, <<edge_join(LoadStrip(imp.mesh), i_edge, 0)[1], <<>> >>)

LoopEdgeCut(i_edge) ==
    /\ imp.kind = "loop" /\ imp.stage = "done"
    /\ LoopStep("done", 0, <<edge_cut(LoadStrip(imp.mesh), i_edge, 0 - 1), <<>> >>)

\* "let mut i_edges = vec![i_edge];"
StripBegin(i_edge) ==
    /\ imp.kind = "loop" /\ imp.stage = "done"
    /\ imp' = [imp EXCEPT !.input = imp.mesh, !.stage = "run", !.edge = i_edge,
                           !.i_edges = <<i_edge>>]
    /\ UNCHANGED << papercraft, undo_stack, modified, selected_islands, grabbed_island,
                    mode, panicked, undo_result, gest, dlg >>

\* "while let Some(i_edge) = i_edges.pop()": one pass through the body
StripIteration ==
    /\ imp.kind = "loop" /\ imp.stage = "run" /\ imp.i_edges # <<>>
    /\ LoopStep("run", imp.edge,
                StripIterate(LoadStrip(imp.mesh), imp.i_edges[Len(imp.i_edges)],
                             SubSeq(imp.i_edges, 1, Len(imp.i_edges) - 1)))
    /\ UNCHANGED n_events

\* The pop returns None and the function returns
StripReturn ==
    /\ imp.kind = "loop" /\ imp.stage = "run" /\ imp.i_edges = <<>>
    /\ imp' = [imp EXCEPT !.stage = "done"]
    /\ UNCHANGED << papercraft, undo_stack, modified, selected_islands, grabbed_island,
                    mode, panicked, undo_result, gest, dlg, n_events >>

NextLoop ==
    \/ Tick(MaxLoopEvents) /\ \E i_edge \in StripShared : LoopEdgeJoin(i_edge)
    \/ Tick(MaxLoopEvents) /\ \E i_edge \in StripShared : LoopEdgeCut(i_edge)
    \/ Tick(MaxLoopEvents) /\ \E i_edge \in 1..Len(StripMesh.edges) : StripBegin(i_edge)
    \/ StripIteration
    \/ StripReturn

\* The editing session with the two memoization maps of Papercraft:
\* imp.tab_limit is memo.flat_face_tab_limit, imp.matrix is
\* memo.face_to_face_edge_matrix_unscaled, imp.at the edge statuses when an
\* entry was last stored
MaxMemoEvents == 3
NoMemo == [k \in {} |-> <<>>]

InitMemo ==
    /\ papercraft \in {Store(import_waveobj(RingObj, o)) : o \in PendingOrders(Len(TheModel.faces))}
    /\ undo_stack = <<>>
    /\ modified = FALSE
    /\ selected_islands = <<>>
    /\ grabbed_island = None
    /\ mode = "Face"
    /\ panicked = FALSE
    /\ undo_result = "none"
    /\ n_events = 0
    /\ gest = Idle("init")
    /\ dlg = NoDialog
    /\ imp = [kind |-> "memo", tab_limit |-> NoMemo, matrix |-> NoMemo, at |-> papercraft.edges]

MemoStore(tab_limit, matrix) ==
    /\ imp' = [imp EXCEPT !.tab_limit = tab_limit, !.matrix = matrix,
                           !.at = IF tab_limit # imp.tab_limit \/ matrix # imp.matrix
                                  THEN papercraft.edges ELSE @]
    /\ UNCHANGED << papercraft, undo_stack, modified, selected_islands, grabbed_island,
                    mode, panicked, undo_result, gest, dlg >>

\* Papercraft::flat_face_tab_limit(i_face_b, i_edge) for a side of the face
\* that is not Hidden
flat_face_tab_limit(i_face_b, i_edge) ==
    /\ imp.kind = "memo" /\ ~panicked
    /\ \E k \in 1..3 : TheModel.faces[i_face_b].edges[k] = i_edge
    /\ papercraft.edges[i_edge] # Hidden
    /\ MemoStore(MemoEntry(imp.tab_limit, <<i_face_b, i_edge>>,
                           flat_face_tab_limit_internal(PC, i_face_b, i_edge)),
                 imp.matrix)

\* Papercraft::face_to_face_edge_matrix_unscaled(edge, face_a, face_b) for
\* the two faces of an edge
MemoMatrix(i_edge, i_face_a, i_face_b) ==
    /\ imp.kind = "memo" /\ ~panicked
    /\ {i_face_a, i_face_b} = {TheModel.edges[i_edge].f0, TheModel.edges[i_edge].f1}
    /\ i_face_a # i_face_b
    /\ MemoStore(imp.tab_limit,
                 MemoEntry(imp.matrix, <<i_edge, i_face_a, i_face_b>>,
                           face_to_face_edge_matrix_unscaled(TheModel, i_edge, i_face_a, i_face_b)))

NextMemo ==
    \/ \E m \in {"Edge", "Tab"} : SetMode(m) /\ UNCHANGED n_events
    \/ /\ Tick(MaxMemoEvents)
       /\ \E selection \in EdgeClicks(PaperClicks(PC, mode)), shift_action \in BOOLEAN :
            paper_button1_click_event(selection, shift_action, FALSE, FALSE)
    \/ Tick(MaxMemoEvents) /\ ui_pack_islands
    \/ /\ Tick(MaxMemoEvents)
       /\ set_papercraft_options([DefaultOptions EXCEPT !.scale = 4])
    \/ Tick(MaxMemoEvents) /\ undo_action
    \/ /\ Tick(MaxMemoEvents)
       /\ \E i_face_b \in ClickedFaces, i_edge \in ClickedEdges :
            flat_face_tab_limit(i_face_b, i_edge)
    \/ /\ Tick(MaxMemoEvents)
       /\ \E i_edge \in ClickedEdges, i_face_a, i_face_b \in Faces :
            MemoMatrix(i_edge, i_face_a, i_face_b)

SpecMemo == InitMemo /\ [][NextMemo]_vars

\* The loop is not suspended: while a call runs its next iteration or its
\* return is taken.  This is WF_vars(StripIteration \/ StripReturn) with
\* ENABLED written out: one of the two is enabled exactly when imp.stage
\* is "run", and each of them changes imp.
LoopProgress == imp.stage = "run" /\ imp' # imp
LoopFairness == []<>(imp.stage # "run") \/ []<><<LoopProgress>>_vars
SpecLoop == InitLoop /\ [][NextLoop]_vars /\ LoopFairness

(***************************************************************************)
(* Saving and loading the enumerations of a document (the Serialize and    *)
(* Deserialize impls of src/src/paper/craft.rs): a value is written as an  *)
(* i32 and read back through u32.                                          *)
(***************************************************************************)
TabStyle(s) == [tab_style |-> s]
FoldStyle(s) == [fold_style |-> s]
EdgeStatusValues == {Hidden, Joined, Cut(FALSE), Cut(TRUE)}
TabStyleValues == {TabStyle(s) : s \in {"Textured", "HalfTextured", "White", "None"}}
FoldStyleValues ==
    {FoldStyle(s) : s \in {"Full", "FullAndOut", "Out", "In", "InAndOut", "None"}}

\* An alternative that writes the tab side the other way round
EdgeStatusCodeSwapped(v) ==
    CASE v = Hidden -> 0 [] v = Joined -> 1 [] v = Cut(FALSE) -> 3 [] v = Cut(TRUE) -> 2

\* The "let is = match self" of the three Serialize impls
EdgeStatusCode(v) ==
    CASE v = Hidden -> 0 [] v = Joined -> 1 [] v = Cut(FALSE) -> 2 [] v = Cut(TRUE) -> 3
TabStyleCode(v) ==
    CASE v.tab_style = "Textured" -> 0 [] v.tab_style = "HalfTextured" -> 1
      [] v.tab_style = "White" -> 2 [] v.tab_style = "None" -> 3
FoldStyleCode(v) ==
    CASE v.fold_style = "Full" -> 0 [] v.fold_style = "FullAndOut" -> 1
      [] v.fold_style = "Out" -> 2 [] v.fold_style = "In" -> 3
      [] v.fold_style = "InAndOut" -> 4 [] v.fold_style = "None" -> 5
serialize(ty, v) ==
    CASE ty = "EdgeStatus" -> EdgeStatusCode(v)
      [] ty = "TabStyle" -> TabStyleCode(v)
      [] ty = "FoldStyle" -> FoldStyleCode(v)

\* u32::deserialize of a written integer: an error below 0 (an integer
\* written as i32 is never above u32::MAX)
IsU32(d) == 0 <= d

\* The "let res = match d" of the three Deserialize impls; None is the Err
deserialize(ty, d) ==
    IF ~IsU32(d) THEN None
    ELSE CASE ty = "EdgeStatus" ->
                (CASE d = 0 -> Some(Hidden) [] d = 1 -> Some(Joined)
                   [] d = 2 -> Some(Cut(FALSE)) [] d = 3 -> Some(Cut(TRUE))
                   [] OTHER -> None)
           [] ty = "TabStyle" ->
                (CASE d = 0 -> Some(TabStyle("Textured")) [] d = 1 -> Some(TabStyle("HalfTextured"))
                   [] d = 2 -> Some(TabStyle("White")) [] d = 3 -> Some(TabStyle("None"))
                   [] OTHER -> None)
           [] ty = "FoldStyle" ->
                (CASE d = 0 -> Some(FoldStyle("Full")) [] d = 1 -> Some(FoldStyle("FullAndOut"))
                   [] d = 2 -> Some(FoldStyle("Out")) [] d = 3 -> Some(FoldStyle("In"))
                   [] d = 4 -> Some(FoldStyle("InAndOut")) [] d = 5 -> Some(FoldStyle("None"))
                   [] OTHER -> None)

\* imp.input is the value to save, or NoValue for a file that holds any
\* integer from -MaxCode to MaxCode; imp.mesh is [code, res]: the integer
\* in the file and what loading it gave
MaxCode == 20
NoValue == [none |-> TRUE]
EnumValues(ty) ==
    CASE ty = "EdgeStatus" -> EdgeStatusValues
      [] ty = "TabStyle" -> TabStyleValues
      [] ty = "FoldStyle" -> FoldStyleValues
EnumTypes == {"EdgeStatus", "TabStyle", "FoldStyle"}

InitSerde ==
    /\ papercraft = Store(import_waveobj(RingObj, [i \in 1..Len(TheModel.faces) |-> i]))
    /\ undo_stack = <<>>
    /\ modified = FALSE
    /\ selected_islands = <<>>
    /\ grabbed_island = None
    /\ mode = "Face"
    /\ panicked = FALSE
    /\ undo_result = "none"
    /\ n_events = 0
    /\ gest = Idle("init")
    /\ dlg = NoDialog
    /\ imp \in UNION { { [kind |-> ty, input |-> v, stage |-> "value",
                          mesh |-> [code |-> 0, res |-> None]] : v \in EnumValues(ty) }
                       \cup { [kind |-> ty, input |-> NoValue, stage |-> "saved",
                                mesh |-> [code |-> d, res |-> None]] :
                                d \in (0 - MaxCode)..MaxCode } : ty \in EnumTypes }

SaveEnum ==
    /\ imp.kind \in EnumTypes /\ imp.stage = "value"
    /\ imp' = [imp EXCEPT !.stage = "saved", !.mesh.code = serialize(imp.kind, imp.input)]
    /\ UNCHANGED Session

LoadEnum ==
    /\ imp.kind \in EnumTypes /\ imp.stage = "saved"
    /\ imp' = [imp EXCEPT !.stage = "loaded", !.mesh.res = deserialize(imp.kind, imp.mesh.code)]
    /\ UNCHANGED Session

NextSerde == SaveEnum \/ LoadEnum

SpecSerde == InitSerde /\ [][NextSerde]_vars

(***************************************************************************)
(* Tessellating one polygon: tessellate of src/src/tessellate.rs on every  *)
(* list of up to MaxPoints points of a small planar set, repeated points,  *)
(* collinear runs and concave outlines included.                           *)
(***************************************************************************)
MaxPoints == 5
TessPoints == { <<0, 0>>, <<90, 0>>, <<90, 90>>, <<0, 90>>, <<30, 30>> }
TessInputs == UNION { [1..k -> TessPoints] : k \in 0..MaxPoints }

InitTessellate ==
    /\ papercraft = Store(import_waveobj(RingObj, [i \in 1..Len(TheModel.faces) |-> i]))
    /\ undo_stack = <<>>
    /\ modified = FALSE
    /\ selected_islands = <<>>
    /\ grabbed_island = None
    /\ mode = "Face"
    /\ panicked = FALSE
    /\ undo_result = "none"
    /\ n_events = 0
    /\ gest = Idle("init")
    /\ imp \in { [kind |-> "polygon", input |-> ps, stage |-> "read", mesh |-> <<>>] :
                    ps \in TessInputs }
    /\ dlg = NoDialog

\* imp.mesh holds the triangles returned for the polygon imp.input
Tessellate ==
    /\ imp.kind = "polygon" /\ imp.stage = "read"
    /\ imp' = [imp EXCEPT !.stage = "done", !.mesh = tessellate(imp.input)]
    /\ UNCHANGED Session

NextTessellate == Tessellate

SpecTessellate == InitTessellate /\ [][NextTessellate]_vars

(***************************************************************************)
(* Properties                                                              *)
(***************************************************************************)
\* The faces reached from the set S over two-faced edges whose status is one
\* of kinds; computed on the edge list, not by the program's traversal.
RECURSIVE Reach(_, _, _)
Reach(pc, S, kinds) ==
    LET N == S \cup { g \in 1..Len(pc.model.faces) :
                        \E e \in 1..Len(pc.model.edges) :
                            /\ pc.edges[e].k \in kinds
                            /\ pc.model.edges[e].f1 # 0
                            /\ \E f \in S : {f, g} = {pc.model.edges[e].f0, pc.model.edges[e].f1} }
    IN  IF N = S THEN S ELSE Reach(pc, N, kinds)

Region(k) == Reach(PC, {papercraft.islands[k].root}, {"Joined", "Hidden"})
TwoFacedCuts == {e \in Edges : papercraft.edges[e].k = "Cut" /\ TheModel.edges[e].f1 # 0}

\* C1: after any sequence of cuts, joins, tab toggles, strip joins and undos
\* every face lies in the region of exactly one island: the regions reached
\* from the island roots over Joined/Hidden edges are pairwise disjoint and
\* cover all the faces.
C1_IslandsPartitionFaces ==
    /\ \A f \in Faces : \E k \in DOMAIN papercraft.islands : f \in Region(k)
    /\ \A k1, k2 \in DOMAIN papercraft.islands :
          k1 # k2 => Region(k1) \cap Region(k2) = {}

C1_Witness ==
    /\ gest.op = "undo" /\ gest.of = "cut"
    /\ Cardinality(DOMAIN papercraft.islands) < Len(RingObj)

\* C2 as stated: the two faces of every two-faced Cut edge lie in two
\* different islands.
C2_CutEdgeSeparatesIslands ==
    \A e \in TwoFacedCuts :
        ~ \E k \in DOMAIN papercraft.islands :
            {TheModel.edges[e].f0, TheModel.edges[e].f1} \subseteq Region(k)

\* C2, amended: the two faces of a two-faced Cut edge lie in one island only
\* if a chain of Joined/Hidden edges links them, and right after an edge is
\* cut its two faces lie in two different islands.
C2_CutEdgeNeverCrossed ==
    /\ \A e \in TwoFacedCuts :
          island_by_face(PC, TheModel.edges[e].f0) = island_by_face(PC, TheModel.edges[e].f1)
            => TheModel.edges[e].f1 \in Reach(PC, {TheModel.edges[e].f0}, {"Joined", "Hidden"})
    /\ (gest.op = "cut" /\ gest.live)
          => island_by_face(PC, TheModel.edges[gest.edge].f0)
               # island_by_face(PC, TheModel.edges[gest.edge].f1)

C2_Witness ==
    \E e \in TwoFacedCuts :
        island_by_face(PC, TheModel.edges[e].f0) = island_by_face(PC, TheModel.edges[e].f1)

\* The JoinResult of the join recorded in gest
JoinOf(g) ==
    LET renames == edge_join(Load(g.pre), g.edge, g.face)[2]
    IN  renames[CHOOSE k \in DOMAIN renames : TRUE]

\* C3: a join of a Cut edge followed by one undo leaves the edge status array
\* as it was before the join, tab side included, and the absorbed island is
\* back with its root, rotation and location.
C3_UndoOfJoinRestores ==
    (gest.op = "undo" /\ gest.of = "join") =>
        /\ papercraft.edges = gest.pre.edges
        /\ \E k \in DOMAIN papercraft.islands :
              papercraft.islands[k] = [ root |-> JoinOf(gest).prev_root,
                                        rot |-> JoinOf(gest).prev_rot,
                                        loc |-> JoinOf(gest).prev_loc ]

IslandSet(doc) == {doc.islands[k] : k \in DOMAIN doc.islands}

\* C4: a cut of a Joined edge followed by one undo leaves the islands as they
\* were before the cut: the island that was split is one island again, with
\* the root, rotation and location it had.
C4_UndoOfCutRestores ==
    (gest.op = "undo" /\ gest.of = "cut") => IslandSet(papercraft) = IslandSet(gest.pre)

\* The islands of pc that hold a face of the set F
Holders(pc, F) == {k \in DOMAIN pc.islands : IslandFaces(pc, pc.islands[k]) \cap F # {}}

\* C5: cutting a Joined edge of island I splits the faces of I between
\* exactly two islands whose face counts sum to the count of I; joining the
\* edge again with the root of the cut-off island as priority face gives one
\* island with the faces and the face count of I.
C5_CutThenJoinKeepsFaces ==
    LET pre == Load(gest.pre)
        e == TheModel.edges[gest.edge]
        I == pre.islands[island_by_face(pre, e.f0)]
        H == Holders(PC, IslandFaces(pre, I))
    IN  /\ (gest.op = "cut" /\ gest.live) =>
              /\ Cardinality(H) = 2
              /\ \A a, b \in H : a # b =>
                    /\ IslandFaces(PC, papercraft.islands[a]) \cap IslandFaces(PC, papercraft.islands[b]) = {}
                    /\ IslandFaces(PC, papercraft.islands[a]) \cup IslandFaces(PC, papercraft.islands[b])
                          = IslandFaces(pre, I)
                    /\ island_face_count(PC, papercraft.islands[a])
                          + island_face_count(PC, papercraft.islands[b])
                          = island_face_count(pre, I)
        /\ (gest.op = "rejoin" /\ gest.live) =>
              /\ Cardinality(H) = 1
              /\ \A a \in H :
                    /\ IslandFaces(PC, papercraft.islands[a]) = IslandFaces(pre, I)
                    /\ island_face_count(PC, papercraft.islands[a]) = island_face_count(pre, I)

C5_Witness == gest.op = "rejoin" /\ gest.live /\ papercraft.edges[gest.edge] = Joined

\* C6 as stated: get_flat_faces(f) is the set of faces reached from f over
\* the edges that are not Hidden.
C6_FlatFacesCrossJoinedOrCut ==
    \A f \in Faces : get_flat_faces(PC, f) = Reach(PC, {f}, {"Joined", "Cut"})

\* C6, amended: get_flat_faces(f) is the set of faces reached from f over
\* Hidden edges only: the triangles of the source polygon of f, whatever the
\* cuts and joins made so far.
C6_FlatFacesCrossHidden ==
    \A f \in Faces : get_flat_faces(PC, f) = Reach(PC, {f}, {"Hidden"})

C6_Witness ==
    \E e \in Edges :
        /\ papercraft.edges[e] = Joined
        /\ TheModel.edges[e].f1 \notin get_flat_faces(PC, TheModel.edges[e].f0)
        /\ get_flat_faces(PC, TheModel.edges[e].f0) # {TheModel.edges[e].f0}

\* The mesh in which every triangle is assembled but the degenerate ones
RECURSIVE KeepTriangles(_, _, _, _, _)
KeepTriangles(m, poly, tris, index, k) ==
    IF k > Len(tris) THEN m
    ELSE KeepTriangles(IF TriangleIsDegenerate(m, poly, tris[k]) THEN m
                       ELSE AddTriangle(m, poly, tris[k], index),
                       poly, tris, index, k + 1)

RECURSIVE KeepPolygons(_, _, _, _)
KeepPolygons(m, polys, i_o, i_f) ==
    IF i_f > Len(polys) THEN m
    ELSE KeepPolygons(KeepTriangles(m, polys[i_f], tessellate(polys[i_f].p),
                                    IF i_o = 0 THEN i_f ELSE <<i_o, i_f>>, 1),
                      polys, i_o, i_f + 1)

RECURSIVE KeepObjects(_, _, _)
KeepObjects(m, pdo, i_o) ==
    IF i_o > Len(pdo) THEN m
    ELSE KeepObjects(KeepPolygons(m, pdo[i_o], i_o, 1), pdo, i_o + 1)

\* C7: a degenerate triangle alone is left out of the mesh; the other
\* triangles of its source polygon and all the later faces and objects are
\* assembled as if it had not been there.
C7_OnlyDegenerateTriangleDropped ==
    imp.stage = "done" =>
        imp.mesh = IF imp.kind = "obj" THEN KeepPolygons(EmptyMesh, imp.input, 0, 1)
                   ELSE KeepObjects(EmptyMesh, imp.input, 1)

\* The printable area of a page: <<top-left, bottom-right>>
PrintableArea(options, page) ==
    LET zero == VAdd(page_position(options, page), <<options.margin[2], options.margin[1]>>)
    IN  << zero,
           VAdd(zero, << options.page_size[1] - options.margin[2] - options.margin[3],
                         options.page_size[2] - options.margin[1] - options.margin[4] >>) >>

BoxInside(bb, area) ==
    /\ area[1][1] <= bb[1][1] /\ bb[2][1] <= area[2][1]
    /\ area[1][2] <= bb[1][2] /\ bb[2][2] <= area[2][2]

\* C8: after pack_islands the inflated bounding box of every island that is
\* no larger than the printable area lies inside the printable area of one
\* page.
C8_PackedInsidePrintableArea ==
    (gest.op = "pack" /\ gest.live) =>
        \A k \in DOMAIN papercraft.islands :
            LET bb == island_bounding_box_angle(PC, papercraft.islands[k], 0)
                area == PrintableArea(papercraft.options, 0)
            IN  (/\ bb[2][1] - bb[1][1] <= area[2][1] - area[1][1]
                 /\ bb[2][2] - bb[1][2] <= area[2][2] - area[1][2])
                => \E page \in 0..Cardinality(DOMAIN papercraft.islands) :
                      BoxInside(bb, PrintableArea(papercraft.options, page))

\* C9: while an island is grabbed, undo_action returns False and leaves the
\* undo stack, the document and the modified flag as they are.
C9_UndoRefusedWhileGrabbing ==
    [][ (grabbed_island.some /\ undo_action) =>
            (undo_result' = "False" /\ UNCHANGED << undo_stack, papercraft, modified >>) ]_vars

C9_Witness ==
    /\ undo_result = "False" /\ gest.of = "refused"
    /\ grabbed_island.some
    /\ undo_stack # <<>>
    /\ gest.op = "move" /\ gest.moved

C11_UndoOfOptionsRestores ==
    (gest.op = "undo" /\ gest.of = "options") =>
        /\ papercraft.options = gest.pre.options
        /\ papercraft.islands = gest.pre.islands
        /\ undo_result = "ModelAndOptions"

C11_Witness ==
    /\ gest.op = "undo" /\ gest.of = "options" /\ gest.moved
    /\ undo_stack # <<>>

\* The new options differ from the old ones in scale alone
OnlyScaleChanged(old, new) == new.scale # old.scale /\ [new EXCEPT !.scale = old.scale] = old

\* The offset lies inside one tile of the grid of pages
InsideTile(options, offset) ==
    /\ 0 <= offset[1] /\ offset[1] < options.page_size[1] + PAGE_SEP
    /\ 0 <= offset[2] /\ offset[2] < options.page_size[2] + PAGE_SEP

\* C15 as stated: after a change of scale alone from s1 to s2, global_to_page
\* of the new location of every island gives the page it had before and the
\* old offset multiplied by s2 / s1.
C15_ScaleKeepsPageAndScalesOffset ==
    (gest.op = "options" /\ gest.live
        /\ OnlyScaleChanged(gest.pre.options, papercraft.options)) =>
        \A k \in DOMAIN papercraft.islands :
            LET old == global_to_page(gest.pre.options, gest.pre.islands[k].loc)
                new == global_to_page(papercraft.options, papercraft.islands[k].loc)
            IN  /\ new.page = old.page
                /\ VScale(gest.pre.options.scale, new.offset)
                      = VScale(papercraft.options.scale, old.offset)

\* C15, amended: after a change of scale alone from s1 to s2 the offset of
\* every island from the corner of the page it was on is the old offset
\* multiplied by s2 / s1; global_to_page of the new location gives that page
\* again when the scaled offset still lies inside the tile of the page.
C15_ScaleScalesOffsetFromOldPage ==
    (gest.op = "options" /\ gest.live
        /\ OnlyScaleChanged(gest.pre.options, papercraft.options)) =>
        \A k \in DOMAIN papercraft.islands :
            LET old == global_to_page(gest.pre.options, gest.pre.islands[k].loc)
                new == global_to_page(papercraft.options, papercraft.islands[k].loc)
                offset == VSub(papercraft.islands[k].loc,
                               page_position(papercraft.options, old.page))
            IN  /\ VScale(gest.pre.options.scale, offset)
                      = VScale(papercraft.options.scale, old.offset)
                /\ InsideTile(papercraft.options, offset) => new.page = old.page

C15_Witness ==
    /\ gest.op = "options" /\ gest.live /\ gest.moved
    /\ OnlyScaleChanged(gest.pre.options, papercraft.options)
    /\ \E k \in DOMAIN papercraft.islands :
          global_to_page(papercraft.options, papercraft.islands[k].loc).page
            = global_to_page(gest.pre.options, gest.pre.islands[k].loc).page + 1

\* The partition of the faces into islands
FacePartition(pc) == {IslandFaces(pc, pc.islands[k]) : k \in DOMAIN pc.islands}

\* The last two edits were edge_toggle_cut on one edge with one priority
\* face, and the edge was Cut before the first of them
ToggledTwice ==
    /\ gest.op = "cut" /\ gest.live
    /\ gest.last.op \in {"join", "rejoin"}
    /\ gest.last.edge = gest.edge /\ gest.last.face = gest.face
    /\ gest.last.pre.edges[gest.edge].k = "Cut"

\* C12: edge_toggle_cut called twice in a row on a Cut edge with the same
\* priority face leaves the edge Cut and the partition of the faces into
\* islands, hence the face count of every island, as before the two calls.
C12_ToggleTwiceKeepsPartition ==
    ToggledTwice =>
        /\ papercraft.edges[gest.edge].k = "Cut"
        /\ FacePartition(PC) = FacePartition(Load(gest.last.pre))
        /\ \A n \in 1..Len(TheModel.faces) :
              Cardinality({k \in DOMAIN papercraft.islands :
                              island_face_count(PC, papercraft.islands[k]) = n})
                = Cardinality({k \in DOMAIN gest.last.pre.islands :
                                  island_face_count(Load(gest.last.pre),
                                                    gest.last.pre.islands[k]) = n})

C12_Witness ==
    /\ ToggledTwice
    /\ gest.face # 0
    /\ \E k \in DOMAIN papercraft.islands : island_face_count(PC, papercraft.islands[k]) = 2

\* The faces that list edge e among their three edges
EdgeUsers(mesh, e) ==
    {f \in 1..Len(mesh.faces) : \E i \in 1..3 : mesh.faces[f].edges[i] = e}

\* C13: in the assembled mesh every edge has one or two incident faces (f0
\* is set, f1 may be, and no other face lists the edge), and the three edges
\* of every face are three different edges.
C13_EdgesHaveOneOrTwoFaces ==
    imp.stage = "done" =>
        /\ \A e \in 1..Len(imp.mesh.edges) :
              /\ imp.mesh.edges[e].f0 \in 1..Len(imp.mesh.faces)
              /\ imp.mesh.edges[e].f1 \in 0..Len(imp.mesh.faces)
              /\ imp.mesh.edges[e].f1 # imp.mesh.edges[e].f0
              /\ EdgeUsers(imp.mesh, e) = {imp.mesh.edges[e].f0, imp.mesh.edges[e].f1} \ {0}
        /\ \A f \in 1..Len(imp.mesh.faces) :
              /\ \A i \in 1..3 : imp.mesh.faces[f].edges[i] \in 1..Len(imp.mesh.edges)
              /\ Cardinality({imp.mesh.faces[f].edges[i] : i \in 1..3}) = 3

\* A third face came to an edge that had two: the edge was cloned
C13_Witness ==
    /\ imp.stage = "done"
    /\ Len(imp.mesh.faces) >= 3
    /\ \E e, d \in 1..Len(imp.mesh.edges) :
          /\ e < d
          /\ imp.mesh.edges[e].f1 # 0
          /\ {imp.mesh.edges[e].v0, imp.mesh.edges[e].v1}
                = {imp.mesh.edges[d].v0, imp.mesh.edges[d].v1}

\* C14: tessellate returns nothing for fewer than 3 points, the one triangle
\* of the three points in order for 3 points, and N - 2 triangles for N > 3
\* points, each of three different indices of the input (indices count from
\* 1 here, from 0 in the source).
C14_TessellateCount ==
    (imp.kind = "polygon" /\ imp.stage = "done") =>
        /\ Len(imp.input) < 3 => imp.mesh = <<>>
        /\ Len(imp.input) = 3 => imp.mesh = <<(<<1, 2, 3>>)>>
        /\ Len(imp.input) > 3 =>
              /\ Len(imp.mesh) = Len(imp.input) - 2
              /\ \A t \in 1..Len(imp.mesh) :
                    /\ \A i \in 1..3 : imp.mesh[t][i] \in 1..Len(imp.input)
                    /\ Cardinality({imp.mesh[t][i] : i \in 1..3}) = 3

\* A polygon of more than three points whose first round finds no ear: the
\* triangle at index 0 was clipped
C14_Witness ==
    /\ imp.kind = "polygon" /\ imp.stage = "done"
    /\ Len(imp.input) > 3
    /\ FindEar([i \in 1..Len(imp.input) |-> <<i, ProjectToPlane(imp.input)[i]>>],
               ProjectIsNaN(imp.input), 1, 0) = 0
    /\ imp.mesh[1] = <<1, 2, 3>>

\* C16: while the tool is ReadOnly no pointer event changes an edge status,
\* an island, the options or the undo stack.
C16_ReadOnlyChangesNothing ==
    [][(mode = "ReadOnly" /\ mode' = "ReadOnly") =>
          /\ papercraft'.edges = papercraft.edges
          /\ papercraft'.islands = papercraft.islands
          /\ papercraft'.options = papercraft.options
          /\ undo_stack' = undo_stack]_vars

\* The entries that fail the validation of the options dialog, as the
\* conditions are documented
FailingControls(text) ==
    {k \in 1..Len(Controls) :
        \/ ~text[Controls[k]].ok
        \/ /\ Controls[k] \in {"scale", "pages", "columns", "width", "height",
                                "tab_width", "tab_angle"}
           /\ ~(text[Controls[k]].x > 0)
        \/ /\ Controls[k] = "resolution"
           /\ ~(72 < text[Controls[k]].x /\ text[Controls[k]].x < 1200)
        \/ /\ Controls[k] \in {"margin_top", "margin_left", "margin_right", "margin_bottom"}
           /\ ~(text[Controls[k]].x >= 0)}

\* C17: a confirmation of the options dialog with a failing entry leaves the
\* document as it was and the dialog open, the error being that of the first
\* failing entry in the order of the dialog; the options and the islands of
\* the document change only in a confirmation in which no entry fails.
C17_InvalidOptionsAreNotCommitted ==
    [][/\ (gest'.op = "response" /\ FailingControls(dlg.text) # {}) =>
            /\ papercraft' = papercraft
            /\ dlg'.open
            /\ \E k \in FailingControls(dlg.text) :
                  /\ dlg'.error = Controls[k]
                  /\ \A j \in FailingControls(dlg.text) : k <= j
       /\ (papercraft'.options # papercraft.options
             \/ papercraft'.islands # papercraft.islands) =>
            (gest'.op = "response" /\ FailingControls(dlg.text) = {})]_vars

\* A confirmation stopped at an entry after earlier entries were written to
\* the dialog's copy of the options
C17_Witness ==
    /\ gest.op = "response"
    /\ dlg.open /\ dlg.error # ""
    /\ dlg.options # papercraft.options
    /\ Cardinality(FailingControls(dlg.text)) = 2

\* The codes of the three enumerations as documented, in the order of
\* their codes from 0
DocumentedCodes(ty) ==
    CASE ty = "EdgeStatus" -> <<Hidden, Joined, Cut(FALSE), Cut(TRUE)>>
      [] ty = "TabStyle" -> <<TabStyle("Textured"), TabStyle("HalfTextured"),
                              TabStyle("White"), TabStyle("None")>>
      [] ty = "FoldStyle" -> <<FoldStyle("Full"), FoldStyle("FullAndOut"), FoldStyle("Out"),
                               FoldStyle("In"), FoldStyle("InAndOut"), FoldStyle("None")>>

\* C18: a saved EdgeStatus, TabStyle or FoldStyle is written as its
\* documented code and loads as the same value; a file with any other
\* integer fails to load, and one with a documented code loads as its value.
C18_EnumRoundTrip ==
    (imp.kind \in EnumTypes /\ imp.stage = "loaded") =>
        /\ imp.input # NoValue =>
              /\ imp.mesh.code \in 0..(Len(DocumentedCodes(imp.kind)) - 1)
              /\ DocumentedCodes(imp.kind)[imp.mesh.code + 1] = imp.input
              /\ imp.mesh.res = Some(imp.input)
        /\ imp.mesh.code \notin 0..(Len(DocumentedCodes(imp.kind)) - 1) => imp.mesh.res = None
        /\ imp.mesh.code \in 0..(Len(DocumentedCodes(imp.kind)) - 1) =>
              imp.mesh.res = Some(DocumentedCodes(imp.kind)[imp.mesh.code + 1])

\* A cut edge with its tab on the second side was saved and loaded
C18_Witness ==
    /\ imp.kind = "EdgeStatus" /\ imp.stage = "loaded"
    /\ imp.input = Cut(TRUE)
    /\ imp.mesh.code = 3

\* C19: once undo_action has emptied the undo stack, no drag being in
\* flight, the document is the one the session was opened with: the same edge
\* statuses, the same islands (root, rotation, location), the same options,
\* and it is not modified.
C19_UndoAllRestoresInitial ==
    (imp.kind = "document" /\ undo_stack = <<>> /\ ~grabbed_island.some /\ ~panicked) =>
        /\ papercraft.edges = imp.input.edges
        /\ IslandSet(papercraft) = IslandSet(imp.input)
        /\ papercraft.options = imp.input.options
        /\ modified = FALSE

\* C20: every key of selected_islands is the key of an island of the
\* document, so that no handler fails on it.
C20_SelectedIslandsExist ==
    /\ \A i \in 1..Len(selected_islands) : selected_islands[i] \in DOMAIN papercraft.islands
    /\ ~panicked

\* The strip join was given a two-faced Cut edge between two islands
StripSeedJoinable ==
    /\ imp.kind = "strip" /\ imp.stage = "strip"
    /\ StripMesh.edges[imp.edge].f1 # 0
    /\ imp.input.edges[imp.edge].k = "Cut"
    /\ island_by_face(LoadStrip(imp.input), StripMesh.edges[imp.edge].f0)
         # island_by_face(LoadStrip(imp.input), StripMesh.edges[imp.edge].f1)
\* The face counts of the two islands of the seed edge before the call
StripSeedCounts ==
    { island_face_count(LoadStrip(imp.input),
          imp.input.islands[island_by_face(LoadStrip(imp.input), f)]) :
        f \in {StripMesh.edges[imp.edge].f0, StripMesh.edges[imp.edge].f1} }

C22_GrabPushesOnlyWhenMoved ==
    [][(gest'.op \in {"move", "grab"}
          /\ (Len(undo_stack') > Len(undo_stack) \/ (modified' /\ ~modified)))
        => papercraft'.islands # papercraft.islands]_vars

\* C23: selected_islands never holds the same island key twice.
C23_SelectionHasNoDuplicates ==
    \A i, j \in 1..Len(selected_islands) :
        i # j => selected_islands[i] # selected_islands[j]

\* C24: a strip join followed by one undo leaves the partition of the faces
\* into islands and the root, rotation and location of every island as they
\* were before the strip join, in whatever order the EdgeJoin actions were
\* stored in the group.
C24_UndoOfStripRestores ==
    (gest.op = "undo" /\ gest.of = "strip") =>
        /\ FacePartition(PC) = FacePartition(Load(gest.pre))
        /\ IslandSet(papercraft) = IslandSet(gest.pre)

\* A strip join that merged three islands into one has been undone
C24_Witness ==
    /\ gest.op = "undo" /\ gest.of = "strip"
    /\ Cardinality(DOMAIN try_join_strip(Load(gest.pre), gest.edge)[2]) = 2
    /\ Cardinality(DOMAIN papercraft.islands) = Cardinality(DOMAIN gest.pre.islands)

\* The island of doc that holds i_face, and the faces of an island of doc
IslandOfFace(doc, i_face) == doc.islands[island_by_face(Load(doc), i_face)]
FacesOfIsland(doc, island) == IslandFaces(Load(doc), island)

\* The island a wins over b: it holds the priority face, or neither holds it
\* and a has more faces, or as many and the smaller root
Wins(doc, a, b, priority_face) ==
    IF priority_face # 0 /\ priority_face \in FacesOfIsland(doc, a) THEN TRUE
    ELSE IF priority_face # 0 /\ priority_face \in FacesOfIsland(doc, b) THEN FALSE
    ELSE IF Cardinality(FacesOfIsland(doc, a)) # Cardinality(FacesOfIsland(doc, b))
    THEN Cardinality(FacesOfIsland(doc, a)) > Cardinality(FacesOfIsland(doc, b))
    ELSE a.root < b.root

\* The survivor is the winner and the recorded JoinResult is the loser
JoinKeeps(winner, loser, i_face) ==
    /\ IslandOfFace(papercraft, i_face) = winner
    /\ \E n \in 1..Len(undo_stack[Len(undo_stack)]) :
          LET action == undo_stack[Len(undo_stack)][n]
          IN  /\ action.t = "EdgeJoin"
              /\ action.join_result.prev_root = loser.root
              /\ action.join_result.prev_rot = loser.rot
              /\ action.join_result.prev_loc = loser.loc

JoinedSides(doc, i_edge) ==
    << IslandOfFace(doc, TheModel.edges[i_edge].f0), IslandOfFace(doc, TheModel.edges[i_edge].f1) >>

\* C25: after an edge click merged two islands, the survivor has the root,
\* rotation and location of the winner and the JoinResult those of the loser;
\* the winner holds the priority face if one is given, else has more faces,
\* else has the smaller root face.
C25_JoinKeepsWinner ==
    (gest.op = "join" /\ gest.live) =>
        IF Wins(gest.pre, JoinedSides(gest.pre, gest.edge)[1],
                JoinedSides(gest.pre, gest.edge)[2], gest.face)
        THEN JoinKeeps(JoinedSides(gest.pre, gest.edge)[1],
                       JoinedSides(gest.pre, gest.edge)[2], TheModel.edges[gest.edge].f0)
        ELSE JoinKeeps(JoinedSides(gest.pre, gest.edge)[2],
                       JoinedSides(gest.pre, gest.edge)[1], TheModel.edges[gest.edge].f0)

\* Two islands of equal weight were joined without a priority face, so the
\* root faces decided, and the survivor is placed as one of the two was
C25_Witness ==
    /\ gest.op = "join" /\ gest.live /\ gest.face = 0
    /\ Cardinality(FacesOfIsland(gest.pre, JoinedSides(gest.pre, gest.edge)[1]))
         = Cardinality(FacesOfIsland(gest.pre, JoinedSides(gest.pre, gest.edge)[2]))
    /\ IslandOfFace(papercraft, TheModel.edges[gest.edge].f0)
         \in {JoinedSides(gest.pre, gest.edge)[1], JoinedSides(gest.pre, gest.edge)[2]}

\* The places <<group, action>> of the undo stack that hold the Modified sentinel
Sentinels ==
    UNION { { <<g, n>> : n \in {m \in DOMAIN undo_stack[g] : undo_stack[g][m] = Modified} } :
            g \in DOMAIN undo_stack }

\* C26: in a session that starts unmodified with an empty undo stack,
\* modified is true exactly when the undo stack is not empty, and the stack
\* holds at most one Modified sentinel, in its oldest group.
C26_ModifiedIffUndoable ==
    /\ modified <=> undo_stack # <<>>
    /\ Cardinality(Sentinels) <= 1
    /\ \A p \in Sentinels : p[1] = 1

\* Groups were pushed and one was undone, and undoable work remains
C26_Witness ==
    /\ gest.op = "undo" /\ undo_result # "False"
    /\ undo_stack # <<>> /\ modified
    /\ Sentinels = { <<1, Len(undo_stack[1])>> }

\* The iteration discards the popped edge and pushes nothing
StripDiscards ==
    /\ imp'.mesh = imp.mesh
    /\ imp'.i_edges = SubSeq(imp.i_edges, 1, Len(imp.i_edges) - 1)

\* The iteration turns one Cut edge into Joined and pushes at most two edges
StripJoinsOne ==
    /\ \E e \in DOMAIN imp.mesh.edges :
          /\ imp.mesh.edges[e].k = "Cut"
          /\ imp'.mesh.edges = [imp.mesh.edges EXCEPT ![e] = Joined]
    /\ Len(imp'.i_edges) <= Len(imp.i_edges) - 1 + 2
    /\ SubSeq(imp'.i_edges, 1, Len(imp.i_edges) - 1)
          = SubSeq(imp.i_edges, 1, Len(imp.i_edges) - 1)

\* C27: try_join_strip terminates for every document and every seed edge:
\* every iteration of its loop either discards the popped edge without
\* pushing, or turns one Cut edge into Joined and pushes at most two further
\* edges, and every call that began returns.
C27_StripTerminates ==
    /\ [][(imp.stage = "run" /\ imp.i_edges # <<>>) => (StripDiscards \/ StripJoinsOne)]_vars
    /\ (imp.stage = "run") ~> (imp.stage = "done")

\* A call has returned after it joined three edges of the ring, and its
\* result is that of try_join_strip
C27_Witness ==
    /\ imp.kind = "loop" /\ imp.stage = "done" /\ imp.edge # 0
    /\ Cardinality({e \in DOMAIN imp.mesh.edges : imp.mesh.edges[e] = Joined})
         = Cardinality({e \in DOMAIN imp.input.edges : imp.input.edges[e] = Joined}) + 3
    /\ imp.mesh = Store(try_join_strip(LoadStrip(imp.input), imp.edge)[1])

\* The loop run step by step gives what try_join_strip gives
StripLoopAgrees ==
    (imp.kind = "loop" /\ imp.stage = "done" /\ imp.edge # 0) =>
        imp.mesh = Store(try_join_strip(LoadStrip(imp.input), imp.edge)[1])

\* The edges that are Hidden, or Cut with both faces in one island
InertEdges ==
    {e \in Edges :
        \/ papercraft.edges[e] = Hidden
        \/ /\ papercraft.edges[e].k = "Cut" /\ TheModel.edges[e].f1 # 0
           /\ island_by_face(PC, TheModel.edges[e].f0) = island_by_face(PC, TheModel.edges[e].f1)}

\* What do_edge_action leaves of the document, the undo stack and modified
\* ("if let Some(undo) = undo { self.push_undo_action(undo); }")
EdgeActionLeaves(ed) ==
    << Store(ed.pc),
       IF ed.undo.some THEN push_undo_action(undo_stack, modified, ed.undo.v)
       ELSE <<undo_stack, modified>> >>

\* C28: an edge action (toggle or strip, with or without a priority face) on
\* a Hidden edge, or on a Cut edge whose two faces are in one island, changes
\* no edge status and no island, pushes no undo group and leaves modified.
C28_InertEdgeActionDoesNothing ==
    \A e \in InertEdges, shift_action \in BOOLEAN :
        \A i_face \in {0, TheModel.edges[e].f0, TheModel.edges[e].f1} :
            EdgeActionLeaves(do_edge_action(PC, selected_islands, e, i_face, shift_action))
                = <<papercraft, <<undo_stack, modified>> >>

\* An edge click in Edge mode has just done nothing, and an edge of the
\* document is Cut with both its faces in one island
C28_Witness ==
    /\ gest.op = "noop" /\ mode = "Edge" /\ undo_stack # <<>>
    /\ \E e \in InertEdges : papercraft.edges[e].k = "Cut"

HiddenEdges(doc) == {e \in DOMAIN doc.edges : doc.edges[e] = Hidden}

\* Every stored value is what a fresh computation gives now
MemoIsFresh ==
    /\ \A key \in DOMAIN imp.tab_limit :
          imp.tab_limit[key] = flat_face_tab_limit_internal(PC, key[1], key[2])
    /\ \A key \in DOMAIN imp.matrix :
          imp.matrix[key] = face_to_face_edge_matrix_unscaled(TheModel, key[1], key[2], key[3])

\* C29: in every reachable state a memoized flat_face_tab_limit(face, edge)
\* and a memoized unscaled face-to-face edge matrix equal a fresh
\* computation, and no edit (cut, join, tab toggle, strip join, pack,
\* set_options, undo) changes the set of Hidden edges.
C29_MemoStaysValid ==
    /\ []MemoIsFresh
    /\ [][HiddenEdges(papercraft') = HiddenEdges(papercraft)]_vars

\* A tab limit is stored that came from no panic, and the edge statuses
\* have changed since the last entry was stored
C29_Witness ==
    /\ imp.kind = "memo"
    /\ \E key \in DOMAIN imp.tab_limit : imp.tab_limit[key] # TabLimitPanic
    /\ imp.at # papercraft.edges

\* The imported document with its mesh
ImportedDoc ==
    [ model |-> imp.mesh, options |-> imp.doc.options, edges |-> imp.doc.edges,
      islands |-> imp.doc.islands, slots |-> imp.doc.slots, free |-> imp.doc.free ]

\* The two faces of edge e come from one source polygon
SamePolygon(mesh, e) ==
    /\ mesh.edges[e].f1 # 0
    /\ mesh.facemap[mesh.edges[e].f0] = mesh.facemap[mesh.edges[e].f1]

\* C30: after import_waveobj an edge is Hidden when its two faces come from
\* one source polygon and Cut(false) otherwise (none is Joined); the islands
\* are the groups of faces connected through Hidden edges, one island each,
\* and every face is in exactly one island; the cube of six quads gets six.
C30_ImportMakesOneIslandPerPolygon ==
    (imp.kind = "import" /\ imp.stage = "done") =>
        /\ \A e \in 1..Len(imp.mesh.edges) :
              imp.doc.edges[e] = IF SamePolygon(imp.mesh, e) THEN Hidden ELSE Cut(FALSE)
        /\ \A f \in 1..Len(imp.mesh.faces) :
              Cardinality({k \in DOMAIN imp.doc.islands :
                             f \in IslandFaces(ImportedDoc, imp.doc.islands[k])}) = 1
        /\ \A k \in DOMAIN imp.doc.islands :
              IslandFaces(ImportedDoc, imp.doc.islands[k])
                 = Reach(ImportedDoc, {imp.doc.islands[k].root}, {"Hidden"})
        /\ Cardinality(DOMAIN imp.doc.islands)
              = Cardinality({Reach(ImportedDoc, {f}, {"Hidden"}) : f \in 1..Len(imp.mesh.faces)})
        /\ imp.input = CubeObj => Cardinality(DOMAIN imp.doc.islands) = 6

\* The cube has been imported: twelve triangles in six islands
C30_Witness ==
    /\ imp.kind = "import" /\ imp.stage = "done" /\ imp.input = CubeObj
    /\ Len(imp.mesh.faces) = 12
    /\ Cardinality(DOMAIN imp.doc.islands) = 6
    /\ Cardinality({e \in 1..Len(imp.mesh.edges) : imp.doc.edges[e] = Hidden}) = 6

====
